---- MODULE Spec2Model ----
(***************************************************************************)
(* A model of the tree-walking interpreter of src/interpreterv4.py.       *)
(*                                                                         *)
(* The state is the interpreter instance: the cell store, the environment  *)
(* stacks (the live one and the captured ones of the lambdas), the heap,   *)
(* the tables built by run(), the current return type/interface, the chain *)
(* of invoke_function activations and the output of the host.  The input   *)
(* is the program: its interface, function and lambda declarations and the *)
(* statement nodes its bodies are built from.  One action executes one     *)
(* statement (or one step of a call) the way the code does.                *)
(***************************************************************************)
EXTENDS Integers, Sequences, FiniteSets, TLC

VARIABLES
    prog,        \* the parsed program (input of run)
    pc,          \* "start", "run", "resume", "error" or "done"
    cells,       \* every Cell ever created: cell id -> Value
    stacks,      \* environment lists: stacks[1] is Environment.env, the others are captured
    cur,         \* which list self.env.env currently refers to
    lams,        \* lams[j]: lambda node of the j-th FunctionValue with a closure_env (stacks[j+1])
    heap,        \* object id -> (field name -> cell id)
    next_obj_id,
    interfaces,  \* interface name -> field specs
    funcs,       \* (name, param types) -> function node
    current_return_type,
    current_return_interface,
    callstack,   \* the active invoke_function activations, innermost last
    ret,         \* the value an activation has just returned, with its continuation
    err,         \* kind of the error raised, "none" before
    output,      \* lines given to the host
    last         \* the operation executed last

vars == <<prog, pc, cells, stacks, cur, lams, heap, next_obj_id, interfaces, funcs,
          current_return_type, current_return_interface, callstack, ret, err, output, last>>

(***************************************************************************)
(* Bounds of the exploration.                                              *)
(***************************************************************************)
MaxCells == 4
MaxObjs == 2
MaxLams == 2
MaxDepth == 2
MaxClosureDepth == 3
MaxBlocks == 2
MaxOut == 1

(***************************************************************************)
(* Types, values, names.                                                   *)
(***************************************************************************)
T_INT == "INT"
T_STRING == "STRING"
T_BOOL == "BOOL"
T_VOID == "VOID"
T_OBJECT == "OBJECT"
T_FUNCTION == "FUNCTION"
T_NIL == "NIL"

NAME_ERROR == "NAME_ERROR"
TYPE_ERROR == "TYPE_ERROR"
FAULT_ERROR == "FAULT_ERROR"
NoError == "none"

UpperLetters == {"A","B","C","D","E","F","G","H","I","J","K","L","M",
                 "N","O","P","Q","R","S","T","U","V","W","X","Y","Z"}

\* A name is the sequence of its characters; a qualified name the sequence of its parts.
Suffix(name) == name[Len(name)]

\* Value(t, v); the payload None is 0 for an object id and for a FunctionValue.
Value(t, v) == [t |-> t, v |-> v]
None == 0

\* A FunctionValue payload: j > 0 is the j-th closure (lams[j], stacks[j+1]);
\* -k is a FunctionValue of top-level function k with closure_env None.
IsLambdaFv(p) == p > 0
FvClosureEnv(p) == IF p > 0 THEN p + 1 ELSE None
FvFuncAst(p) == IF p > 0 THEN prog.lambdas[lams[p]] ELSE prog.functions[-p]

Max(S) == CHOOSE x \in S : \A y \in S : y <= x

Result(e, v) == [err |-> e, v |-> v]
(***************************************************************************)
(* Identifier typing by suffix.                                            *)
(***************************************************************************)
\* type_from_name: the type, or TYPE_ERROR where the code raises it
TypeOfSuffix(suffix) ==
    IF suffix = "i" THEN T_INT
    ELSE IF suffix = "s" THEN T_STRING
    ELSE IF suffix = "b" THEN T_BOOL
    ELSE IF suffix = "o" THEN T_OBJECT
    ELSE IF suffix = "f" THEN T_FUNCTION
    ELSE IF suffix \in UpperLetters THEN T_OBJECT
    ELSE TYPE_ERROR
type_from_name(name) == TypeOfSuffix(Suffix(name))

type_from_suffix(suffix, is_func) ==
    IF suffix = "i" THEN T_INT
    ELSE IF suffix = "s" THEN T_STRING
    ELSE IF suffix = "b" THEN T_BOOL
    ELSE IF suffix = "o" THEN T_OBJECT
    ELSE IF suffix = "f" THEN T_FUNCTION
    ELSE IF is_func /\ suffix = "v" THEN T_VOID
    ELSE IF suffix \in UpperLetters THEN T_OBJECT
    ELSE TYPE_ERROR

\* interface_from_suffix / interface_from_name: the interface letter, or "" for None
NoInterface == ""
interface_from_suffix(suffix) == IF suffix \in UpperLetters THEN suffix ELSE NoInterface
interface_from_name(name) == interface_from_suffix(Suffix(name))
interface_for_qname(qname) == interface_from_name(qname[Len(qname)])

default_value_for_type(t) ==
    IF t = T_INT THEN Value(T_INT, 0)
    ELSE IF t = T_STRING THEN Value(T_STRING, <<>>)
    ELSE IF t = T_BOOL THEN Value(T_BOOL, FALSE)
    ELSE IF t = T_OBJECT THEN Value(T_OBJECT, None)
    ELSE IF t = T_FUNCTION THEN Value(T_FUNCTION, None)
    ELSE Value(T_VOID, None)

is_nil_value(val) == val.t \in {T_OBJECT, T_FUNCTION} /\ val.v = None

\* the declared type and interface the table construction attaches to a parameter
ParamDeclaredType(arg) ==
    IF Suffix(arg.name) \in UpperLetters THEN T_OBJECT
    ELSE type_from_suffix(Suffix(arg.name), FALSE)
ParamInterface(arg) == interface_from_suffix(Suffix(arg.name))
ParamTypes(node) == [i \in 1..Len(node.args) |-> ParamDeclaredType(node.args[i])]
ReturnTypeOf(node) ==
    IF Suffix(node.name) \in UpperLetters THEN T_OBJECT
    ELSE type_from_suffix(Suffix(node.name), TRUE)
ReturnInterfaceOf(node) == interface_from_suffix(Suffix(node.name))

(***************************************************************************)
(* Environment: a list of function frames, each a list of blocks, each a   *)
(* map from name to Cell.                                                  *)
(***************************************************************************)
EmptyBlock == [n \in {} |-> 0]

\* Environment.exists
exists(env, varname) ==
    \E f \in 1..Len(env) : \E b \in 1..Len(env[f]) : varname \in DOMAIN env[f][b]

\* Environment.get_current_cell: the Cell (its id), 0 for None
get_current_cell(env, varname) ==
    LET fs == {f \in 1..Len(env) : \E b \in 1..Len(env[f]) : varname \in DOMAIN env[f][b]} IN
    IF fs = {} THEN 0
    ELSE LET frame == env[Max(fs)]
             bs == {b \in 1..Len(frame) : varname \in DOMAIN frame[b]}
         IN frame[Max(bs)][varname]

exists_in_current_block(env, varname) == varname \in DOMAIN env[Len(env)][Len(env[Len(env)])]
exists_in_function_scope(env, varname) == varname \in DOMAIN env[Len(env)][1]

\* the list with block b of the top frame replaced
WithTopBlock(env, b, block) ==
    [env EXCEPT ![Len(env)] = [@ EXCEPT ![b] = block]]

\* top_env[0][varname] = cell
fdef_function_cell(env, varname, cell) ==
    WithTopBlock(env, 1, (varname :> cell) @@ env[Len(env)][1])
\* top_env[-1][varname] = cell
fdef_block_cell(env, varname, cell) ==
    LET top == env[Len(env)] IN
    WithTopBlock(env, Len(top), (varname :> cell) @@ top[Len(top)])

enter_block(env) == [env EXCEPT ![Len(env)] = Append(@, EmptyBlock)]
exit_block(env) == [env EXCEPT ![Len(env)] = SubSeq(@, 1, Len(@) - 1)]
enter_func(env) == Append(env, <<EmptyBlock>>)
\* the frame of the activation is emptied and left on the list
ExitFuncKeepingFrame(env) == [env EXCEPT ![Len(env)] = <<EmptyBlock>>]
exit_func(env) == SubSeq(env, 1, Len(env) - 1)

(***************************************************************************)
(* Qualified names.                                                        *)
(***************************************************************************)
\* the walk over the intermediate fields of get_qname_cell / set_qname_value (typed)
\* and of get_qname_cell_and_owner (not typed): the value reached, or the error raised
RECURSIVE WalkIntermediates(_, _, _, _, _)
WalkIntermediates(cs, hp, current_val, fields, typed) ==
    IF fields = <<>> THEN Result(NoError, current_val)
    ELSE IF current_val.t # T_OBJECT THEN Result(TYPE_ERROR, current_val)
    ELSE IF current_val.v = None THEN Result(FAULT_ERROR, current_val)
    ELSE IF current_val.v \notin DOMAIN hp THEN Result(FAULT_ERROR, current_val)
    ELSE IF Head(fields) \notin DOMAIN hp[current_val.v] THEN Result(NAME_ERROR, current_val)
    ELSE IF type_from_name(Head(fields)) = TYPE_ERROR THEN Result(TYPE_ERROR, current_val)
    ELSE IF typed /\ type_from_name(Head(fields)) # T_OBJECT THEN Result(TYPE_ERROR, current_val)
    ELSE WalkIntermediates(cs, hp, cs[hp[current_val.v][Head(fields)]], Tail(fields), typed)

\* the checks on the value the walk ends at: it must be a live object
TerminalObject(hp, w) ==
    IF w.err # NoError THEN w
    ELSE IF w.v.t # T_OBJECT THEN Result(TYPE_ERROR, w.v)
    ELSE IF w.v.v = None THEN Result(FAULT_ERROR, w.v)
    ELSE IF w.v.v \notin DOMAIN hp THEN Result(FAULT_ERROR, w.v)
    ELSE w

\* the object whose field table holds the final field: Result(err, object value)
FinalObject(env, cs, hp, qname, typed) ==
    IF type_from_name(qname[1]) # T_OBJECT THEN Result(TYPE_ERROR, Value(T_NIL, None))
    ELSE IF get_current_cell(env, qname[1]) = 0 THEN Result(NAME_ERROR, Value(T_NIL, None))
    ELSE TerminalObject(hp, WalkIntermediates(cs, hp, cs[get_current_cell(env, qname[1])],
                                              SubSeq(qname, 2, Len(qname) - 1), typed))

NoOwner == Value(T_NIL, None)
CellAndOwner(e, cell, owner) == [err |-> e, v |-> cell, owner |-> owner]

\* the Cell of a plain name
PlainCell(cell) ==
    IF cell = 0 THEN CellAndOwner(NAME_ERROR, 0, NoOwner) ELSE CellAndOwner(NoError, cell, NoOwner)

\* the Cell of the final field in the terminal object o
FieldCell(hp, o, final_field) ==
    IF o.err # NoError THEN CellAndOwner(o.err, 0, NoOwner)
    ELSE IF final_field \notin DOMAIN hp[o.v.v] THEN CellAndOwner(NAME_ERROR, 0, NoOwner)
    ELSE CellAndOwner(NoError, hp[o.v.v][final_field], o.v)

\* get_qname_cell: [err, v: cell id]
get_qname_cell(env, cs, hp, qname) ==
    IF ~exists(env, qname[1]) THEN CellAndOwner(NAME_ERROR, 0, NoOwner)
    ELSE IF Len(qname) = 1 THEN PlainCell(get_current_cell(env, qname[1]))
    ELSE FieldCell(hp, FinalObject(env, cs, hp, qname, TRUE), qname[Len(qname)])

\* the owner of a dotted name is the object of the base variable
GetQnameCellAndBase(env, cs, hp, qname) ==
    IF Len(qname) = 1 \/ get_qname_cell(env, cs, hp, qname).err # NoError
    THEN get_qname_cell(env, cs, hp, qname)
    ELSE [get_qname_cell(env, cs, hp, qname) EXCEPT !.owner = cs[get_current_cell(env, qname[1])]]

\* get_qname_cell_and_owner: [err, v: cell id, owner]; the owner of a plain name is None
get_qname_cell_and_owner(env, cs, hp, qname) ==
    IF ~exists(env, qname[1]) THEN CellAndOwner(NAME_ERROR, 0, NoOwner)
    ELSE IF Len(qname) = 1 THEN PlainCell(get_current_cell(env, qname[1]))
    ELSE FieldCell(hp, FinalObject(env, cs, hp, qname, FALSE), qname[Len(qname)])

(***************************************************************************)
(* Structural interface conformance.                                       *)
(***************************************************************************)
\* one formal of the function held by the field against one required parameter
\* identical declared type, interface name and ref flag, whatever the required type
ParamMatchesIdentical(formal, required) ==
    /\ formal.ref = required.ref
    /\ ParamDeclaredType(formal) = required.type
    /\ ParamInterface(formal) = required.interface
ParamMatches(formal, required) ==
    IF formal.ref # required.ref THEN FALSE
    ELSE IF required.type = T_OBJECT /\ required.interface = NoInterface
         THEN ParamDeclaredType(formal) = T_OBJECT
    ELSE IF required.type = T_OBJECT /\ required.interface # NoInterface
         THEN ParamDeclaredType(formal) = T_OBJECT /\ ParamInterface(formal) = required.interface
    ELSE ParamDeclaredType(formal) = required.type /\ ParamInterface(formal) = required.interface

ParamsMatch(formal_params, required_params) ==
    IF Len(formal_params) # Len(required_params) THEN FALSE
    ELSE \A i \in 1..Len(formal_params) : ParamMatches(formal_params[i], required_params[i])

\* the "func" branch of object_satisfies_interface
FuncFieldSatisfies(field_val, spec) ==
    IF field_val.t # T_FUNCTION THEN FALSE
    ELSE IF field_val.v = None THEN FALSE
    ELSE ParamsMatch(FvFuncAst(field_val.v).args, spec.params)

\* the loop goes on to the next field unless this one failed
FieldThen(sub, rest) == IF sub.err # NoError \/ ~sub.v THEN sub ELSE rest

\* object_satisfies_interface: Result(err, TRUE/FALSE)
RECURSIVE object_satisfies_interface(_, _, _, _)
RECURSIVE SatisfiesFields(_, _, _, _)
RECURSIVE FieldSatisfies(_, _, _, _)
object_satisfies_interface(cs, hp, interface_name, val) ==
    IF interface_name = NoInterface THEN Result(NoError, TRUE)
    ELSE IF val.t # T_OBJECT THEN Result(NoError, FALSE)
    ELSE IF val.v = None THEN Result(NoError, TRUE)
    ELSE IF interface_name \notin DOMAIN interfaces THEN Result(NAME_ERROR, FALSE)
    ELSE IF val.v \notin DOMAIN hp THEN Result(FAULT_ERROR, FALSE)
    ELSE SatisfiesFields(cs, hp, interfaces[interface_name], hp[val.v])

\* one field spec against the value the object holds in that field
FieldSatisfies(cs, hp, spec, field_val) ==
    IF spec.kind = "var" THEN
        (IF field_val.t # spec.type THEN Result(NoError, FALSE)
         ELSE IF spec.interface # NoInterface
              THEN object_satisfies_interface(cs, hp, spec.interface, field_val)
         ELSE Result(NoError, TRUE))
    ELSE IF spec.kind = "func" THEN Result(NoError, FuncFieldSatisfies(field_val, spec))
    ELSE Result(NoError, FALSE)

SatisfiesFields(cs, hp, specs, object_fields) ==
    IF specs = <<>> THEN Result(NoError, TRUE)
    ELSE IF Head(specs).name \notin DOMAIN object_fields THEN Result(NoError, FALSE)
    ELSE FieldThen(FieldSatisfies(cs, hp, Head(specs), cs[object_fields[Head(specs).name]]),
                   SatisfiesFields(cs, hp, Tail(specs), object_fields))

(***************************************************************************)
(* Assignment.                                                             *)
(***************************************************************************)
\* no tag check: any value is accepted for any target
CoerceAny(target_type, value) == Result(NoError, value)

\* the tag check shared by assignment, argument binding and return:
\* a nil value takes the tag of a nullable target, any other tag must be equal
CoerceTo(target_type, value) ==
    IF target_type = TYPE_ERROR THEN Result(TYPE_ERROR, value)
    ELSE IF is_nil_value(value) THEN
        (IF target_type \in {T_OBJECT, T_FUNCTION}
         THEN Result(NoError, Value(target_type, None))
         ELSE Result(TYPE_ERROR, value))
    ELSE IF value.t # target_type THEN Result(TYPE_ERROR, value)
    ELSE Result(NoError, value)

\* the outcome of the interface check on the coerced value c
InterfaceChecked(c, sat) ==
    IF sat.err # NoError THEN Result(sat.err, c.v)
    ELSE IF ~sat.v THEN Result(TYPE_ERROR, c.v)
    ELSE c

\* the interface of the target is not looked at
CoercedUnchecked(cs, hp, expected_interface, c) == c

Coerced(cs, hp, expected_interface, c) ==
    IF c.err # NoError THEN c
    ELSE IF expected_interface = NoInterface THEN c
    ELSE InterfaceChecked(c, object_satisfies_interface(cs, hp, expected_interface, c.v))

\* the tag check followed by the interface check: Result(err, value to store)
CheckForSlot(cs, hp, target_type, expected_interface, value) ==
    Coerced(cs, hp, expected_interface, CoerceTo(target_type, value))

Stored(e, cs, hp) == [err |-> e, cells |-> cs, heap |-> hp]

\* the value goes to a new Cell and the Cell of the name keeps its value
StorePlainInNewCell(cs, hp, chk, cell) ==
    IF chk.err # NoError THEN Stored(chk.err, cs, hp)
    ELSE IF cell = 0 THEN Stored(NAME_ERROR, cs, hp)
    ELSE Stored(NoError, Append(cs, chk.v), hp)

\* cell.set(value) on the Cell of a plain name
StorePlain(cs, hp, chk, cell) ==
    IF chk.err # NoError THEN Stored(chk.err, cs, hp)
    ELSE IF cell = 0 THEN Stored(NAME_ERROR, cs, hp)
    ELSE Stored(NoError, [cs EXCEPT ![cell] = chk.v], hp)

\* the Cell of the field is overwritten, or a new Cell inserted in the field table
\* the write is refused when it makes the object stop satisfying an interface
StoreFieldRechecked(cs, hp, obj_id, final_field, chk) ==
    IF chk.err # NoError THEN Stored(chk.err, cs, hp)
    ELSE LET written == IF final_field \in DOMAIN hp[obj_id]
                        THEN Stored(NoError, [cs EXCEPT ![hp[obj_id][final_field]] = chk.v], hp)
                        ELSE Stored(NoError, Append(cs, chk.v),
                                    [hp EXCEPT ![obj_id] = (final_field :> (Len(cs) + 1)) @@ @])
         IN IF \E I \in DOMAIN interfaces :
                  /\ object_satisfies_interface(cs, hp, I, Value(T_OBJECT, obj_id)).v
                  /\ ~object_satisfies_interface(written.cells, written.heap, I,
                                                 Value(T_OBJECT, obj_id)).v
            THEN Stored(TYPE_ERROR, cs, hp)
            ELSE written

StoreField(cs, hp, obj_id, final_field, chk) ==
    IF chk.err # NoError THEN Stored(chk.err, cs, hp)
    ELSE IF final_field \in DOMAIN hp[obj_id]
         THEN Stored(NoError, [cs EXCEPT ![hp[obj_id][final_field]] = chk.v], hp)
    ELSE Stored(NoError, Append(cs, chk.v),
                [hp EXCEPT ![obj_id] = (final_field :> (Len(cs) + 1)) @@ @])

StoreDotted(cs, hp, o, final_field, value) ==
    IF o.err # NoError THEN Stored(o.err, cs, hp)
    ELSE StoreField(cs, hp, o.v.v, final_field,
                    CheckForSlot(cs, hp, type_from_name(final_field),
                                 interface_from_name(final_field), value))

\* set_qname_value: the error raised, or the cell store and heap after the write
set_qname_value(env, cs, hp, qname, value) ==
    IF ~exists(env, qname[1]) THEN Stored(NAME_ERROR, cs, hp)
    ELSE IF Len(qname) = 1 THEN
        StorePlain(cs, hp,
                   CheckForSlot(cs, hp, type_from_name(qname[1]), interface_from_name(qname[1]), value),
                   get_current_cell(env, qname[1]))
    ELSE StoreDotted(cs, hp, FinalObject(env, cs, hp, qname, TRUE), qname[Len(qname)], value)
(***************************************************************************)
(* Expressions.  The part of the interpreter an expression can change      *)
(* (cells, heap, object counter, captured lists, closures) is threaded     *)
(* through the evaluation as a record.                                     *)
(***************************************************************************)
Store(cs, hp, nid, sts, lm) ==
    [cells |-> cs, heap |-> hp, next_obj_id |-> nid, stacks |-> sts, lams |-> lm]
CurStore == Store(cells, heap, next_obj_id, stacks, lams)
Evaluated(e, v, S) == [err |-> e, v |-> v, S |-> S]

\* the counter is not advanced: the next object gets the same id
NewObjectSameId(S) ==
    Evaluated(NoError, Value(T_OBJECT, S.next_obj_id),
              [S EXCEPT !.heap = [i \in DOMAIN S.heap \cup {S.next_obj_id} |->
                                    IF i = S.next_obj_id THEN EmptyBlock ELSE S.heap[i]]])

\* new_object
new_object(S) ==
    LET obj_id == S.next_obj_id IN
    Evaluated(NoError, Value(T_OBJECT, obj_id),
              [S EXCEPT !.next_obj_id = obj_id + 1,
                        !.heap = [i \in DOMAIN S.heap \cup {obj_id} |->
                                    IF i = obj_id THEN EmptyBlock ELSE S.heap[i]]])

\* a fixed order of the bindings of an environment list, to number the fresh cells
Alphabet == <<"a","b","c","d","e","f","g","h","i","j","k","l","m","n","o","p","q","r","s",
              "t","u","v","w","x","y","z","A","B","C","D","E","F","G","H","I","J","K","L",
              "M","N","O","P","Q","R","S","T","U","V","W","X","Y","Z">>
CharCode(c) == CHOOSE i \in 1..Len(Alphabet) : Alphabet[i] = c
RECURSIVE NameCode(_)
NameCode(name) ==
    IF name = <<>> THEN 0
    ELSE NameCode(SubSeq(name, 1, Len(name) - 1)) * 64 + CharCode(name[Len(name)])
Bindings(env) ==
    UNION {UNION {{<<f, b, n>> : n \in DOMAIN env[f][b]} : b \in 1..Len(env[f])} : f \in 1..Len(env)}
Before(x, y) ==
    \/ x[1] < y[1]
    \/ x[1] = y[1] /\ x[2] < y[2]
    \/ x[1] = y[1] /\ x[2] = y[2] /\ NameCode(x[3]) < NameCode(y[3])
Rank(env, x) == Cardinality({y \in Bindings(env) : Before(y, x)}) + 1

\* the value the fresh Cell of a captured binding holds
CapturedValue(val) ==
    IF val.t \in {T_INT, T_STRING, T_BOOL} THEN Value(val.t, val.v) ELSE val
CellOfBinding(env, x) == env[x[1]][x[2]][x[3]]

\* no copy is made: the closure shares the Cells of the running environment
CaptureByReference(cs, env) == [stack |-> env, cells |-> cs]

\* capture_env_for_lambda: the copied list, every binding on a fresh Cell that holds
\* the value of the original (a copy of a scalar, the same handle otherwise)
capture_env_for_lambda(cs, env) ==
    [stack |-> [f \in 1..Len(env) |-> [b \in 1..Len(env[f]) |->
                  [n \in DOMAIN env[f][b] |-> Len(cs) + Rank(env, <<f, b, n>>)]]],
     cells |-> cs \o [i \in 1..Cardinality(Bindings(env)) |->
                  CapturedValue(cs[CellOfBinding(env,
                      CHOOSE y \in Bindings(env) : Rank(env, y) = i)])]]

\* make_named_function_value
make_named_function_value(name) ==
    LET potential == {key \in DOMAIN funcs : key[1] = name} IN
    IF Cardinality(potential) = 0 THEN Result(NAME_ERROR, Value(T_NIL, None))
    ELSE IF Cardinality(potential) > 1 THEN Result(NAME_ERROR, Value(T_NIL, None))
    ELSE Result(NoError, Value(T_FUNCTION, -funcs[CHOOSE key \in potential : TRUE]))

\* Python's // on integers
FloorDiv(a, b) == IF b > 0 THEN a \div b ELSE (-a) \div (-b)

PYTHON_EXCEPTION == "PYTHON_EXCEPTION"

\* the instance of a closure is not looked at: any two closures are equal
ValuesEqualAnyClosure(vl, vr) ==
    IF is_nil_value(vl) /\ is_nil_value(vr) THEN TRUE
    ELSE IF is_nil_value(vl) \/ is_nil_value(vr) THEN FALSE
    ELSE IF vl.t = T_OBJECT /\ vr.t = T_OBJECT THEN vl.v = vr.v
    ELSE IF vl.t = T_FUNCTION /\ vr.t = T_FUNCTION
         THEN (IsLambdaFv(vl.v) /\ IsLambdaFv(vr.v)) \/ vl.v = vr.v
    ELSE IF vl.t = vr.t THEN vl.v = vr.v
    ELSE FALSE

\* the == of __eval_binary_op
ValuesEqual(vl, vr) ==
    IF is_nil_value(vl) /\ is_nil_value(vr) THEN TRUE
    ELSE IF is_nil_value(vl) \/ is_nil_value(vr) THEN FALSE
    ELSE IF vl.t = T_OBJECT /\ vr.t = T_OBJECT THEN vl.v = vr.v
    ELSE IF vl.t = T_FUNCTION /\ vr.t = T_FUNCTION THEN
        (IF IsLambdaFv(vl.v) /\ IsLambdaFv(vr.v) THEN vl.v = vr.v
         ELSE IF ~IsLambdaFv(vl.v) /\ ~IsLambdaFv(vr.v)
              THEN vl.v = vr.v /\ ParamTypes(FvFuncAst(vl.v)) = ParamTypes(FvFuncAst(vr.v))
         ELSE FALSE)
    ELSE IF vl.t = vr.t THEN vl.v = vr.v
    ELSE FALSE

\* __eval_binary_op: Result(err, value)
eval_binary_op(kind, vl, vr) ==
    IF kind = "==" THEN Result(NoError, Value(T_BOOL, ValuesEqual(vl, vr)))
    ELSE IF kind = "!=" THEN Result(NoError, Value(T_BOOL, ~ValuesEqual(vl, vr)))
    ELSE IF vl.t = T_STRING /\ vr.t = T_STRING /\ kind = "+"
         THEN Result(NoError, Value(T_STRING, vl.v \o vr.v))
    ELSE IF vl.t = T_INT /\ vr.t = T_INT /\ kind \in {"+", "-", "*", "/", "<", "<=", ">", ">="} THEN
        (IF kind = "+" THEN Result(NoError, Value(T_INT, vl.v + vr.v))
         ELSE IF kind = "-" THEN Result(NoError, Value(T_INT, vl.v - vr.v))
         ELSE IF kind = "*" THEN Result(NoError, Value(T_INT, vl.v * vr.v))
         ELSE IF kind = "/" THEN
             (IF vr.v = 0 THEN Result(PYTHON_EXCEPTION, vl)
              ELSE Result(NoError, Value(T_INT, FloorDiv(vl.v, vr.v))))
         ELSE IF kind = "<" THEN Result(NoError, Value(T_BOOL, vl.v < vr.v))
         ELSE IF kind = "<=" THEN Result(NoError, Value(T_BOOL, vl.v <= vr.v))
         ELSE IF kind = ">" THEN Result(NoError, Value(T_BOOL, vl.v > vr.v))
         ELSE Result(NoError, Value(T_BOOL, vl.v >= vr.v)))
    ELSE IF vl.t = T_BOOL /\ vr.t = T_BOOL /\ kind \in {"&&", "||"} THEN
        (IF kind = "&&" THEN Result(NoError, Value(T_BOOL, vl.v /\ vr.v))
         ELSE Result(NoError, Value(T_BOOL, vl.v \/ vr.v)))
    ELSE Result(TYPE_ERROR, vl)

bops == {"+", "-", "*", "/", "==", "!=", ">", ">=", "<", "<=", "||", "&&"}

\* expression nodes: [kind, name, val, args]
Expr(kind, name, val, args) == [kind |-> kind, name |-> name, val |-> val, args |-> args]

\* a function literal: the derived types, the captured environment, the FunctionValue
EvalFuncLiteral(expr, node, cap, S) ==
    IF ReturnTypeOf(node) = TYPE_ERROR
       \/ \E i \in 1..Len(node.args) : ParamDeclaredType(node.args[i]) = TYPE_ERROR
    THEN Evaluated(TYPE_ERROR, Value(T_NIL, None), S)
    ELSE Evaluated(NoError, Value(T_FUNCTION, Len(S.lams) + 1),
                   [S EXCEPT !.cells = cap.cells,
                             !.stacks = Append(S.stacks, cap.stack),
                             !.lams = Append(S.lams, expr.val)])

\* get_qname_value
ReadCell(c, S) ==
    IF c.err # NoError THEN Evaluated(c.err, Value(T_NIL, None), S)
    ELSE Evaluated(NoError, S.cells[c.v], S)

WithStore(res, S) == Evaluated(res.err, res.v, S)

BinaryOf(kind, l, r) ==
    IF r.err # NoError THEN r ELSE WithStore(eval_binary_op(kind, l.v, r.v), r.S)
NegOf(o) ==
    IF o.err # NoError THEN o
    ELSE IF o.v.t = T_INT THEN Evaluated(NoError, Value(T_INT, -o.v.v), o.S)
    ELSE Evaluated(TYPE_ERROR, o.v, o.S)
NotOf(o) ==
    IF o.err # NoError THEN o
    ELSE IF o.v.t = T_BOOL THEN Evaluated(NoError, Value(T_BOOL, ~o.v.v), o.S)
    ELSE Evaluated(TYPE_ERROR, o.v, o.S)

\* __eval_expr on an expression without calls, in the environment list env:
\* the error raised, or the value and the store after the evaluation
RECURSIVE eval_expr(_, _, _)
RECURSIVE EvalRight(_, _, _, _)
\* the right operand is skipped when the left one decides && or ||
EvalRightShortCircuit(kind, l, op2, env) ==
    IF l.err # NoError THEN l
    ELSE IF kind = "&&" /\ l.v = Value(T_BOOL, FALSE) THEN l
    ELSE IF kind = "||" /\ l.v = Value(T_BOOL, TRUE) THEN l
    ELSE BinaryOf(kind, l, eval_expr(op2, env, l.S))

EvalRight(kind, l, op2, env) ==
    IF l.err # NoError THEN l ELSE BinaryOf(kind, l, eval_expr(op2, env, l.S))

eval_expr(expr, env, S) ==
    IF expr.kind = "func"
    THEN EvalFuncLiteral(expr, prog.lambdas[expr.val], capture_env_for_lambda(S.cells, env), S)
    ELSE IF expr.kind = "int" THEN Evaluated(NoError, Value(T_INT, expr.val), S)
    ELSE IF expr.kind = "string" THEN Evaluated(NoError, Value(T_STRING, expr.name), S)
    ELSE IF expr.kind = "bool" THEN Evaluated(NoError, Value(T_BOOL, expr.val = 1), S)
    ELSE IF expr.kind = "nil" THEN Evaluated(NoError, Value(T_OBJECT, None), S)
    ELSE IF expr.kind = "@" THEN new_object(S)
    ELSE IF expr.kind = "qname" THEN
        (IF Len(expr.name) > 1 \/ exists(env, expr.name[1])
         THEN ReadCell(get_qname_cell(env, S.cells, S.heap, expr.name), S)
         ELSE WithStore(make_named_function_value(expr.name[1]), S))
    ELSE IF expr.kind \in bops
    THEN EvalRight(expr.kind, eval_expr(expr.args[1], env, S), expr.args[2], env)
    ELSE IF expr.kind = "neg" THEN NegOf(eval_expr(expr.args[1], env, S))
    ELSE IF expr.kind = "!" THEN NotOf(eval_expr(expr.args[1], env, S))
    ELSE Evaluated(PYTHON_EXCEPTION, Value(T_NIL, None), S)

(***************************************************************************)
(* Tables built by run().                                                  *)
(***************************************************************************)
MainName == <<"m", "a", "i", "n">>
Selfo == <<"s", "e", "l", "f", "o">>

\* the field specs of one interface declaration: [err, fields]
RECURSIVE InterfaceFields(_, _, _)
InterfaceFields(fields, known, fields_info) ==
    IF fields = <<>> THEN [err |-> NoError, fields |-> fields_info]
    ELSE LET field == Head(fields)
             fname == field.name
         IN IF \E i \in 1..Len(fields_info) : fields_info[i].name = fname
            THEN [err |-> NAME_ERROR, fields |-> fields_info]
            ELSE IF field.kind = "field_var" THEN
                IF type_from_name(fname) = TYPE_ERROR
                THEN [err |-> TYPE_ERROR, fields |-> fields_info]
                ELSE IF interface_from_name(fname) # NoInterface /\ interface_from_name(fname) \notin known
                THEN [err |-> NAME_ERROR, fields |-> fields_info]
                ELSE InterfaceFields(Tail(fields), known,
                        Append(fields_info, [name |-> fname, kind |-> "var",
                                             type |-> type_from_name(fname),
                                             interface |-> interface_from_name(fname),
                                             params |-> <<>>]))
            ELSE IF field.kind = "field_func" THEN
                IF \E i \in 1..Len(field.params) : type_from_name(field.params[i].name) = TYPE_ERROR
                THEN [err |-> TYPE_ERROR, fields |-> fields_info]
                ELSE IF \E i \in 1..Len(field.params) :
                            /\ interface_from_name(field.params[i].name) # NoInterface
                            /\ interface_from_name(field.params[i].name) \notin known
                THEN [err |-> NAME_ERROR, fields |-> fields_info]
                ELSE InterfaceFields(Tail(fields), known,
                        Append(fields_info, [name |-> fname, kind |-> "func",
                                             type |-> T_FUNCTION, interface |-> NoInterface,
                                             params |-> [i \in 1..Len(field.params) |->
                                                [type |-> type_from_name(field.params[i].name),
                                                 interface |-> interface_from_name(field.params[i].name),
                                                 ref |-> field.params[i].ref]]]))
            ELSE [err |-> NAME_ERROR, fields |-> fields_info]

\* create_interface_table: [err, tab]
RECURSIVE create_interface_table(_, _)
RECURSIVE WithInterface(_, _, _, _)
WithInterface(more, tab, name, fi) ==
    IF fi.err # NoError THEN [err |-> fi.err, tab |-> tab]
    ELSE create_interface_table(more, (name :> fi.fields) @@ tab)

\* a field may name the interface being defined and the interfaces defined after it
CreateInterfaceTableAnyOrder(interface_nodes, tab) ==
    IF interface_nodes = <<>> THEN [err |-> NoError, tab |-> tab]
    ELSE IF Head(interface_nodes).name \notin UpperLetters THEN [err |-> NAME_ERROR, tab |-> tab]
    ELSE IF Head(interface_nodes).name \in DOMAIN tab THEN [err |-> NAME_ERROR, tab |-> tab]
    ELSE WithInterface(Tail(interface_nodes), tab, Head(interface_nodes).name,
                       InterfaceFields(Head(interface_nodes).fields,
                                       DOMAIN tab \cup {interface_nodes[i].name :
                                                           i \in 1..Len(interface_nodes)},
                                       <<>>))
create_interface_table(interface_nodes, tab) ==
    IF interface_nodes = <<>> THEN [err |-> NoError, tab |-> tab]
    ELSE LET node == Head(interface_nodes) IN
         IF node.name \notin UpperLetters THEN [err |-> NAME_ERROR, tab |-> tab]
         ELSE IF node.name \in DOMAIN tab THEN [err |-> NAME_ERROR, tab |-> tab]
         ELSE WithInterface(Tail(interface_nodes), tab, node.name,
                            InterfaceFields(node.fields, DOMAIN tab, <<>>))

FuncReturnType(node) == IF node.name = MainName THEN T_VOID ELSE ReturnTypeOf(node)
FuncReturnInterface(node) == IF node.name = MainName THEN NoInterface ELSE ReturnInterfaceOf(node)

\* __create_function_table over functions k..: [err, tab], tab maps (name, param types) to k
RECURSIVE create_function_table(_, _, _)
\* a function of a key already in the table takes the place of the earlier one
CreateFunctionTableOverwriting(functions, k, tab) ==
    IF k > Len(functions) THEN [err |-> NoError, tab |-> tab]
    ELSE IF functions[k].name = MainName /\ Len(functions[k].args) # 0
         THEN [err |-> NAME_ERROR, tab |-> tab]
    ELSE IF FuncReturnType(functions[k]) = TYPE_ERROR THEN [err |-> TYPE_ERROR, tab |-> tab]
    ELSE IF \E i \in 1..Len(functions[k].args) : ParamDeclaredType(functions[k].args[i]) = TYPE_ERROR
         THEN [err |-> TYPE_ERROR, tab |-> tab]
    ELSE create_function_table(functions, k + 1,
                               (<<functions[k].name, ParamTypes(functions[k])>> :> k) @@ tab)
create_function_table(functions, k, tab) ==
    IF k > Len(functions) THEN [err |-> NoError, tab |-> tab]
    ELSE LET func == functions[k]
             key == <<func.name, ParamTypes(func)>>
         IN IF func.name = MainName /\ Len(func.args) # 0 THEN [err |-> NAME_ERROR, tab |-> tab]
            ELSE IF FuncReturnType(func) = TYPE_ERROR THEN [err |-> TYPE_ERROR, tab |-> tab]
            ELSE IF \E i \in 1..Len(func.args) : ParamDeclaredType(func.args[i]) = TYPE_ERROR
                 THEN [err |-> TYPE_ERROR, tab |-> tab]
            ELSE IF key \in DOMAIN tab THEN [err |-> NAME_ERROR, tab |-> tab]
            ELSE create_function_table(functions, k + 1, (key :> k) @@ tab)


(***************************************************************************)
(* Calls.                                                                  *)
(***************************************************************************)
Args(e, vals, S, pending) == [err |-> e, vals |-> vals, S |-> S, pending |-> pending]

\* the arguments of a call are evaluated left to right from position i; the
\* evaluation stops at an argument that is itself a call (pending = its position)
RECURSIVE EvalArgs(_, _, _, _, _)
RECURSIVE EvalArgsNext(_, _, _, _, _)
EvalArgsNext(args, i, vals, env, r) ==
    IF r.err # NoError THEN Args(r.err, vals, r.S, 0)
    ELSE EvalArgs(args, i + 1, Append(vals, r.v), env, r.S)
EvalArgs(args, i, vals, env, S) ==
    IF i > Len(args) THEN Args(NoError, vals, S, 0)
    ELSE IF args[i].kind = "fcall" THEN Args(NoError, vals, S, i)
    ELSE EvalArgsNext(args, i, vals, env, eval_expr(args[i], env, S))

Callee(e, fv, owner) == [err |-> e, fv |-> fv, owner |-> owner]

\* nil is given no special treatment: every tag must equal the parameter type
OverloadMatchesExactly(key, fcall_name, actual_args) ==
    /\ key[1] = fcall_name
    /\ Len(key[2]) = Len(actual_args)
    /\ \A i \in 1..Len(actual_args) : key[2][i] = actual_args[i].t

\* one candidate of the overload resolution of __run_fcall
OverloadMatches(key, fcall_name, actual_args) ==
    /\ key[1] = fcall_name
    /\ Len(key[2]) = Len(actual_args)
    /\ \A i \in 1..Len(actual_args) :
          IF is_nil_value(actual_args[i])
          THEN key[2][i] \in {T_OBJECT, T_FUNCTION}
          ELSE key[2][i] = actual_args[i].t

\* the function table searched for the candidates of a call by name
OverloadCallee(potential) ==
    IF Cardinality(potential) = 0 THEN Callee(NAME_ERROR, None, NoOwner)
    ELSE IF Cardinality(potential) > 1 THEN Callee(NAME_ERROR, None, NoOwner)
    ELSE Callee(NoError, -funcs[CHOOSE key \in potential : TRUE], NoOwner)

\* the checks of a call through a variable or a field on the FunctionValue's param_types
ParamTypesAccept(param_types, actual_args, fv, owner) ==
    IF Len(param_types) # Len(actual_args) THEN Callee(TYPE_ERROR, None, NoOwner)
    ELSE IF \E i \in 1..Len(actual_args) : actual_args[i].t # param_types[i]
         THEN Callee(TYPE_ERROR, None, NoOwner)
    ELSE Callee(NoError, fv, owner)

FunctionOfValue(func_val, owner, actual_args) ==
    IF func_val.t # T_FUNCTION THEN Callee(TYPE_ERROR, None, NoOwner)
    ELSE IF func_val.v = None THEN Callee(FAULT_ERROR, None, NoOwner)
    ELSE ParamTypesAccept(ParamTypes(FvFuncAst(func_val.v)), actual_args, func_val.v, owner)

FunctionOfCell(c, cs, actual_args) ==
    IF c.err # NoError THEN Callee(c.err, None, NoOwner)
    ELSE FunctionOfValue(cs[c.v], c.owner, actual_args)

\* __run_fcall after the arguments are evaluated: who is called
ResolveCallee(fcall_name, actual_args, env, cs, hp) ==
    IF \E i \in 1..Len(actual_args) : actual_args[i].t = T_VOID
    THEN Callee(TYPE_ERROR, None, NoOwner)
    ELSE IF Len(fcall_name) > 1
    THEN FunctionOfCell(get_qname_cell_and_owner(env, cs, hp, fcall_name), cs, actual_args)
    ELSE IF Len(env) > 0 /\ exists(env, fcall_name[1])
    THEN FunctionOfCell(get_qname_cell(env, cs, hp, fcall_name), cs, actual_args)
    ELSE OverloadCallee({key \in DOMAIN funcs : OverloadMatches(key, fcall_name[1], actual_args)})

Bound(e, bindings) == [err |-> e, bindings |-> bindings]
Binding(kind, pname, cell, val) == [kind |-> kind, pname |-> pname, cell |-> cell, val |-> val]

\* the binding loop of invoke_function: [err, bindings]
RECURSIVE BindParams(_, _, _, _, _, _, _, _)
RECURSIVE BindRef(_, _, _, _, _, _, _, _, _)
RECURSIVE BindChecked(_, _, _, _, _, _, _, _, _)
BindRef(formal_params, args_expr_nodes, actual_args_values, i, bindings, env, cs, hp, cell) ==
    IF cell.err # NoError THEN Bound(cell.err, bindings)
    ELSE BindParams(formal_params, args_expr_nodes, actual_args_values, i + 1,
                    Append(bindings, Binding("ref", formal_params[i].name, cell.v,
                                             actual_args_values[i])),
                    env, cs, hp)

\* a ref parameter bound whatever interface letter the name of its actual ends in
BindCheckedAnyLetter(formal_params, args_expr_nodes, actual_args_values, i, bindings, env, cs, hp, chk) ==
    IF chk.err # NoError THEN Bound(chk.err, bindings)
    ELSE IF formal_params[i].ref THEN
        (IF args_expr_nodes[i].kind # "qname" THEN Bound(TYPE_ERROR, bindings)
         ELSE BindRef(formal_params, args_expr_nodes, actual_args_values, i, bindings, env, cs, hp,
                      get_qname_cell(env, cs, hp, args_expr_nodes[i].name)))
    ELSE BindParams(formal_params, args_expr_nodes, actual_args_values, i + 1,
                    Append(bindings, Binding("val", formal_params[i].name, 0, chk.v)),
                    env, cs, hp)
BindChecked(formal_params, args_expr_nodes, actual_args_values, i, bindings, env, cs, hp, chk) ==
    IF chk.err # NoError THEN Bound(chk.err, bindings)
    ELSE IF formal_params[i].ref THEN
        (IF args_expr_nodes[i].kind # "qname" THEN Bound(TYPE_ERROR, bindings)
         ELSE IF /\ ParamInterface(formal_params[i]) # NoInterface
                 /\ interface_for_qname(args_expr_nodes[i].name) # NoInterface
                 /\ interface_for_qname(args_expr_nodes[i].name) # ParamInterface(formal_params[i])
              THEN Bound(TYPE_ERROR, bindings)
         ELSE BindRef(formal_params, args_expr_nodes, actual_args_values, i, bindings, env, cs, hp,
                      get_qname_cell(env, cs, hp, args_expr_nodes[i].name)))
    ELSE BindParams(formal_params, args_expr_nodes, actual_args_values, i + 1,
                    Append(bindings, Binding("val", formal_params[i].name, 0, chk.v)),
                    env, cs, hp)

BindParams(formal_params, args_expr_nodes, actual_args_values, i, bindings, env, cs, hp) ==
    IF i > Len(formal_params) THEN Bound(NoError, bindings)
    ELSE BindChecked(formal_params, args_expr_nodes, actual_args_values, i, bindings, env, cs, hp,
                     CheckForSlot(cs, hp, ParamDeclaredType(formal_params[i]),
                                  ParamInterface(formal_params[i]), actual_args_values[i]))

Defined(ok, env, cs) == [ok |-> ok, env |-> env, cells |-> cs]

\* the new Cell is bound in the innermost block, as a block-var-definition does
FdefFunctionInBlock(env, cs, varname, initial_value) ==
    IF exists_in_current_block(env, varname) THEN Defined(FALSE, env, cs)
    ELSE Defined(TRUE, fdef_block_cell(env, varname, Len(cs) + 1), Append(cs, initial_value))

\* Environment.fdef_function: a new Cell in the initial block of the top frame
fdef_function(env, cs, varname, initial_value) ==
    IF exists_in_function_scope(env, varname) THEN Defined(FALSE, env, cs)
    ELSE Defined(TRUE, fdef_function_cell(env, varname, Len(cs) + 1), Append(cs, initial_value))

\* Environment.fdef_block: a new Cell in the innermost block of the top frame
fdef_block(env, cs, varname, initial_value) ==
    IF exists_in_current_block(env, varname) THEN Defined(FALSE, env, cs)
    ELSE Defined(TRUE, fdef_block_cell(env, varname, Len(cs) + 1), Append(cs, initial_value))

\* the parameter cells of invoke_function are inserted one by one
RECURSIVE InsertBindings(_, _, _)
\* a ref parameter bound like any other parameter, to a new Cell holding the value
InsertBindingByValue(b, d) == fdef_function(d.env, d.cells, b.pname, b.val)
InsertBinding(b, d) ==
    IF b.kind = "val" THEN fdef_function(d.env, d.cells, b.pname, b.val)
    ELSE IF exists_in_function_scope(d.env, b.pname) THEN Defined(FALSE, d.env, d.cells)
    ELSE Defined(TRUE, fdef_function_cell(d.env, b.pname, b.cell), d.cells)
InsertBindings(bindings, i, d) ==
    IF ~d.ok \/ i > Len(bindings) THEN d
    ELSE InsertBindings(bindings, i + 1, InsertBinding(bindings[i], d))

\* the activation of invoke_function: the new frame, selfo, the parameter cells
Activate(bindings, self_object_value, env, cs) ==
    InsertBindings(bindings, 1,
        IF self_object_value # NoOwner
        THEN fdef_function(enter_func(env), cs, Selfo, self_object_value)
        ELSE Defined(TRUE, enter_func(env), cs))

\* continuations: what the caller does with the value a call returns
Kont(kind, node, vals) == [kind |-> kind, node |-> node, vals |-> vals]
NoNode == [kind |-> "none", name |-> <<>>, val |-> 0, args |-> <<>>]

Outcome(tag, e, call, vals, S, k, fv, owner, bindings) ==
    [tag |-> tag, err |-> e, call |-> call, vals |-> vals, S |-> S, k |-> k,
     fv |-> fv, owner |-> owner, bindings |-> bindings]
Failed(e, call, vals, S, k) == Outcome("error", e, call, vals, S, k, None, NoOwner, <<>>)

PrintName == <<"p", "r", "i", "n", "t">>

\* invoke_function up to the end of the binding loop
CallBound(call, k, a, c, b) ==
    IF b.err # NoError THEN Failed(b.err, call, a.vals, a.S, k)
    ELSE Outcome("enter", NoError, call, a.vals, a.S, k, c.fv, c.owner, b.bindings)

CallResolved(call, k, env, a, c) ==
    IF c.err # NoError THEN Failed(c.err, call, a.vals, a.S, k)
    ELSE IF Len(FvFuncAst(c.fv).args) # Len(a.vals) THEN Failed(TYPE_ERROR, call, a.vals, a.S, k)
    ELSE CallBound(call, k, a, c,
                   BindParams(FvFuncAst(c.fv).args, call.args, a.vals, 1, <<>>, env,
                              a.S.cells, a.S.heap))

\* a call is followed down to the first activation it enters:
\*   "error": an error is raised while arguments are evaluated, the callee resolved or bound;
\*   "print": the built-in print has its arguments;
\*   "enter": the callee is bound and its frame can be pushed
RECURSIVE RunCall(_, _, _, _, _)
RECURSIVE CallWithArgs(_, _, _, _)
CallWithArgs(call, k, env, a) ==
    IF a.err # NoError THEN Failed(a.err, call, a.vals, a.S, k)
    ELSE IF a.pending # 0
    THEN RunCall(call.args[a.pending], <<>>, <<Kont("arg", call, a.vals)>> \o k, env, a.S)
    ELSE IF call.name = <<PrintName>>
    THEN Outcome("print", NoError, call, a.vals, a.S, k, None, NoOwner, <<>>)
    ELSE CallResolved(call, k, env, a,
                      ResolveCallee(call.name, a.vals, env, a.S.cells, a.S.heap))
RunCall(call, vals, k, env, S) ==
    CallWithArgs(call, k, env, EvalArgs(call.args, Len(vals) + 1, vals, env, S))
(***************************************************************************)
(* Output of print.                                                        *)
(***************************************************************************)
DigitChars == <<"0", "1", "2", "3", "4", "5", "6", "7", "8", "9">>
RECURSIVE NatToStr(_)
NatToStr(n) == IF n < 10 THEN <<DigitChars[n + 1]>> ELSE NatToStr(n \div 10) \o <<DigitChars[(n % 10) + 1]>>
IntToStr(n) == IF n < 0 THEN <<"-">> \o NatToStr(-n) ELSE NatToStr(n)

\* str(c_out.v), lower-cased for a Bool
ToStr(val) ==
    IF val.t = T_BOOL THEN (IF val.v THEN <<"t","r","u","e">> ELSE <<"f","a","l","s","e">>)
    ELSE IF val.t = T_INT THEN IntToStr(val.v)
    ELSE IF val.t = T_STRING THEN val.v
    ELSE IF val.v = None THEN <<"N","o","n","e">>
    ELSE IF val.t = T_OBJECT THEN IntToStr(val.v)
    ELSE <<"<","F","u","n","c","t","i","o","n","V","a","l","u","e",">">>

RECURSIVE PrintLine(_)
PrintLine(vals) == IF vals = <<>> THEN <<>> ELSE ToStr(Head(vals)) \o PrintLine(Tail(vals))

(***************************************************************************)
(* The state machine.                                                      *)
(***************************************************************************)
EmptyTable == [n \in {} |-> 0]
NoValue == Value(T_NIL, None)
NoRet == [v |-> NoValue, k |-> <<>>]

\* what the last step did: the operation, its node, its value, and for a call the
\* parameter bindings and the values of the actual arguments
Op(op, node, v, b, a) == [op |-> op, node |-> node, v |-> v, b |-> b, a |-> a]
OpOf(op, node, v) == Op(op, node, v, <<>>, <<>>)

Bounded(S) ==
    /\ Len(S.cells) <= MaxCells
    /\ S.next_obj_id - 1 <= MaxObjs
    /\ Len(S.lams) <= MaxLams

ApplyStore(S) ==
    /\ cells' = S.cells
    /\ heap' = S.heap
    /\ next_obj_id' = S.next_obj_id
    /\ stacks' = S.stacks
    /\ lams' = S.lams

\* InterpreterBase.error: the run is over, whatever was changed before stays changed
Raise(e, S, op) ==
    /\ Bounded(S)
    /\ pc' = "error"
    /\ err' = e
    /\ ApplyStore(S)
    /\ last' = op
    /\ UNCHANGED <<prog, cur, interfaces, funcs, current_return_type,
                   current_return_interface, callstack, ret, output>>

\* the statement is done and the body goes on
Continue(S, op) ==
    /\ Bounded(S)
    /\ pc' = "run"
    /\ ApplyStore(S)
    /\ last' = op
    /\ ret' = NoRet
    /\ UNCHANGED <<prog, cur, interfaces, funcs, current_return_type,
                   current_return_interface, callstack, err, output>>

\* the same, with the list of the open if/while statements of the activation changed
ContinueIn(S, op, ctl) ==
    /\ Bounded(S)
    /\ pc' = "run"
    /\ ApplyStore(S)
    /\ last' = op
    /\ ret' = NoRet
    /\ callstack' = [callstack EXCEPT ![Len(callstack)].ctl = ctl]
    /\ UNCHANGED <<prog, cur, interfaces, funcs, current_return_type,
                   current_return_interface, err, output>>

(***************************************************************************)
(* The programs.  A program is what the parser hands to run(): interface   *)
(* declarations, top-level functions, function literals, and the statement *)
(* nodes that occur in the bodies; a body is any sequence of them.         *)
(***************************************************************************)
QName(name) == Expr("qname", <<name>>, 0, <<>>)
Dotted(base, field) == Expr("qname", <<base, field>>, 0, <<>>)
IntLit(n) == Expr("int", <<>>, n, <<>>)
BoolLit(b) == Expr("bool", <<>>, IF b THEN 1 ELSE 0, <<>>)
NilLit == Expr("nil", <<>>, 0, <<>>)
NewObject == Expr("@", <<>>, 0, <<>>)
FuncLit(k) == Expr("func", <<>>, k, <<>>)
BinOp(op, l, r) == Expr(op, <<>>, 0, <<l, r>>)
Neg(e) == Expr("neg", <<>>, 0, <<e>>)
Fcall(name, args) == Expr("fcall", <<name>>, 0, args)
FcallDotted(base, field, args) == Expr("fcall", <<base, field>>, 0, args)
Vardef(name) == Expr("vardef", <<name>>, 0, <<>>)
Bvardef(name) == Expr("bvardef", <<name>>, 0, <<>>)
AssignTo(qname, e) == Expr("=", qname, 0, <<e>>)
IfStmt(cond) == Expr("if", <<>>, 0, <<cond>>)
WhileStmt(cond) == Expr("while", <<>>, 0, <<cond>>)
ReturnStmt(args) == Expr("return", <<>>, 0, args)

Arg(name, ref) == [name |-> name, ref |-> ref]
Func(name, args) == [name |-> name, args |-> args]
Program(interface_nodes, functions, lambdas, stmts) ==
    [interfaces |-> interface_nodes, functions |-> functions, lambdas |-> lambdas,
     stmts |-> stmts]

xi == <<"x", "i">>
ki == <<"k", "i">>
fi == <<"f", "i">>
xb == <<"x", "b">>
xv == <<"x", "v">>
yo == <<"y", "o">>
zo == <<"z", "o">>
pQ == <<"p", "Q">>
zf == <<"z", "f">>
gf == <<"g", "f">>
av == <<"a", "v">>
hv == <<"h", "v">>
iv == <<"i", "v">>
nv == <<"n", "v">>
rv == <<"r", "v">>
tv == <<"t", "v">>
ci == <<"c", "i">>
li == <<"l", "i">>
mQ == <<"m", "Q">>
nQ == <<"n", "Q">>
pR == <<"p", "R">>
ax == <<"a", "x">>

FieldVar(name) == [kind |-> "field_var", name |-> name, params |-> <<>>]
FieldFunc(name, params) == [kind |-> "field_func", name |-> name, params |-> params]
Interface(name, fields) == [name |-> name, fields |-> fields]

\* a variable of the caller used in a callee
ProgScope ==
    Program(<<>>,
            <<Func(MainName, <<>>), Func(av, <<>>)>>,
            <<>>,
            {Vardef(xi), AssignTo(<<xi>>, IntLit(1)), Fcall(av, <<>>)})

\* a nil Object variable passed by reference to a Function parameter
ProgRefTag ==
    Program(<<>>,
            <<Func(MainName, <<>>), Func(rv, <<Arg(zf, TRUE)>>)>>,
            <<>>,
            {Vardef(yo), AssignTo(<<zf>>, QName(rv)), Fcall(rv, <<QName(yo)>>)})

\* ref and value parameters, the actual a variable
ProgRef ==
    Program(<<>>,
            <<Func(MainName, <<>>), Func(iv, <<Arg(ki, TRUE)>>), Func(nv, <<Arg(ki, FALSE)>>)>>,
            <<>>,
            {Vardef(xi), AssignTo(<<ki>>, IntLit(1)),
             Fcall(iv, <<QName(xi)>>), Fcall(nv, <<QName(xi)>>)})

\* a ref parameter, the actual a field
ProgRefField ==
    Program(<<>>,
            <<Func(MainName, <<>>), Func(iv, <<Arg(ki, TRUE)>>)>>,
            <<>>,
            {Vardef(yo), AssignTo(<<yo>>, NewObject), AssignTo(<<yo, ki>>, IntLit(0)),
             AssignTo(<<ki>>, IntLit(1)), Fcall(iv, <<Dotted(yo, ki)>>)})

\* a function literal that reads a captured Int variable
ProgClosure ==
    Program(<<>>,
            <<Func(MainName, <<>>)>>,
            <<Func(li, <<>>)>>,
            {Vardef(xi), Vardef(zf), AssignTo(<<xi>>, IntLit(1)), AssignTo(<<zf>>, FuncLit(1)),
             Fcall(zf, <<>>), ReturnStmt(<<QName(xi)>>)})

\* a function literal that reads a field of a captured Object variable
ProgClosureObject ==
    Program(<<>>,
            <<Func(MainName, <<>>)>>,
            <<Func(li, <<>>)>>,
            {Vardef(yo), Vardef(zf), AssignTo(<<yo>>, NewObject), AssignTo(<<zf>>, FuncLit(1)),
             AssignTo(<<yo, ki>>, IntLit(1)), Fcall(zf, <<>>), ReturnStmt(<<Dotted(yo, ki)>>)})

\* overloads of one name on Int, Object and Function; a function with one Object overload
ProgOverload ==
    Program(<<>>,
            <<Func(MainName, <<>>), Func(tv, <<Arg(ki, FALSE)>>), Func(tv, <<Arg(yo, FALSE)>>),
              Func(tv, <<Arg(zf, FALSE)>>), Func(hv, <<Arg(yo, FALSE)>>)>>,
            <<>>,
            {Fcall(tv, <<IntLit(1)>>), Fcall(tv, <<NilLit>>), Fcall(tv, <<BoolLit(TRUE)>>),
             Fcall(tv, <<NewObject>>), Fcall(tv, <<QName(hv)>>), Fcall(hv, <<NilLit>>),
             Fcall(hv, <<>>), Fcall(av, <<>>)})

\* the result of a void call as right-hand side, argument, return expression, printed
ProgVoid ==
    Program(<<>>,
            <<Func(MainName, <<>>), Func(av, <<>>), Func(nv, <<Arg(ki, FALSE)>>), Func(ci, <<>>)>>,
            <<>>,
            {Vardef(xi), Vardef(xv), AssignTo(<<xi>>, Fcall(av, <<>>)),
             Fcall(nv, <<Fcall(av, <<>>)>>), ReturnStmt(<<Fcall(av, <<>>)>>),
             Fcall(ci, <<>>), Fcall(PrintName, <<Fcall(av, <<>>)>>)})

\* objects, aliases and ==
ProgObjects ==
    Program(<<>>,
            <<Func(MainName, <<>>)>>,
            <<>>,
            {Vardef(yo), Vardef(zo), Vardef(xb), AssignTo(<<yo>>, NewObject),
             AssignTo(<<zo>>, QName(yo)), AssignTo(<<zo>>, NilLit),
             AssignTo(<<yo, ki>>, IntLit(1)),
             AssignTo(<<xb>>, BinOp("==", NewObject, NewObject)),
             AssignTo(<<xb>>, BinOp("==", QName(yo), QName(zo)))})

\* interface Q requires the Int field fi: assignment, parameter and return of type Q
ProgInterface ==
    Program(<<Interface("Q", <<FieldVar(fi)>>)>>,
            <<Func(MainName, <<>>), Func(tv, <<Arg(pQ, FALSE)>>), Func(mQ, <<Arg(yo, FALSE)>>)>>,
            <<>>,
            {Vardef(yo), Vardef(pQ), AssignTo(<<yo>>, NewObject), AssignTo(<<yo, fi>>, IntLit(1)),
             AssignTo(<<pQ>>, QName(yo)), AssignTo(<<pQ>>, NilLit), AssignTo(<<pQ>>, NewObject),
             Fcall(tv, <<QName(yo)>>), Fcall(mQ, <<QName(yo)>>), ReturnStmt(<<QName(yo)>>)})

\* interface Q requires the function field gf, which is later overwritten through an alias
ProgMutation ==
    Program(<<Interface("Q", <<FieldFunc(gf, <<>>)>>)>>,
            <<Func(MainName, <<>>), Func(av, <<>>), Func(nv, <<Arg(ki, FALSE)>>)>>,
            <<>>,
            {Vardef(yo), Vardef(pQ), AssignTo(<<yo>>, NewObject),
             AssignTo(<<yo, gf>>, QName(av)), AssignTo(<<yo, gf>>, QName(nv)),
             AssignTo(<<yo, gf>>, NilLit), AssignTo(<<pQ>>, QName(yo))})

\* blocks, loops, returns and output
ProgControl ==
    Program(<<>>,
            <<Func(MainName, <<>>)>>,
            <<>>,
            {Vardef(xb), Bvardef(xi), AssignTo(<<xb>>, BoolLit(TRUE)),
             IfStmt(QName(xb)), WhileStmt(QName(xb)), ReturnStmt(<<>>),
             Fcall(PrintName, <<QName(xb)>>)})

\* function values compared: named functions, closures of one literal, a variable
ProgFuncEq ==
    Program(<<>>,
            <<Func(MainName, <<>>), Func(av, <<>>), Func(nv, <<Arg(ki, FALSE)>>)>>,
            <<Func(li, <<>>)>>,
            {Vardef(xb), Vardef(zf), AssignTo(<<zf>>, FuncLit(1)),
             AssignTo(<<xb>>, BinOp("==", QName(zf), QName(zf))),
             AssignTo(<<xb>>, BinOp("==", FuncLit(1), FuncLit(1))),
             AssignTo(<<xb>>, BinOp("==", QName(av), QName(av))),
             AssignTo(<<xb>>, BinOp("==", QName(av), QName(nv))),
             AssignTo(<<xb>>, BinOp("==", QName(av), FuncLit(1)))})

\* integer division with operands of either sign
ProgDivide ==
    Program(<<>>,
            <<Func(MainName, <<>>)>>,
            <<>>,
            {Vardef(xi), AssignTo(<<xi>>, BinOp("/", IntLit(7), IntLit(2))),
             AssignTo(<<xi>>, BinOp("/", Neg(IntLit(7)), IntLit(2))),
             AssignTo(<<xi>>, BinOp("/", IntLit(7), Neg(IntLit(2)))),
             AssignTo(<<xi>>, BinOp("/", Neg(IntLit(7)), Neg(IntLit(2))))})

\* an interface with a field of its own interface type
ProgSelfReference ==
    Program(<<Interface("Q", <<FieldVar(nQ)>>)>>,
            <<Func(MainName, <<>>)>>,
            <<>>,
            {Vardef(yo)})

\* two interfaces whose fields are of the other's interface type
ProgMutualReference ==
    Program(<<Interface("Q", <<FieldVar(pR)>>), Interface("R", <<FieldFunc(gf, <<Arg(pQ, FALSE)>>)>>)>>,
            <<Func(MainName, <<>>)>>,
            <<>>,
            {Vardef(yo)})

\* a ref parameter of interface type Q given a plain Object variable
ProgRefInterface ==
    Program(<<Interface("Q", <<>>)>>,
            <<Func(MainName, <<>>), Func(tv, <<Arg(pQ, TRUE)>>)>>,
            <<>>,
            {Vardef(yo), AssignTo(<<yo>>, NewObject), Fcall(tv, <<QName(yo)>>)})

\* a ref parameter of interface type Q given a variable of interface type R
ProgRefOtherInterface ==
    Program(<<Interface("Q", <<>>), Interface("R", <<>>)>>,
            <<Func(MainName, <<>>), Func(tv, <<Arg(pQ, TRUE)>>)>>,
            <<>>,
            {Vardef(pR), AssignTo(<<pR>>, NewObject), Fcall(tv, <<QName(pR)>>)})

\* nil passed to a Function parameter by name and through a variable
ProgNilCall ==
    Program(<<>>,
            <<Func(MainName, <<>>), Func(hv, <<Arg(zf, FALSE)>>)>>,
            <<>>,
            {Vardef(gf), AssignTo(<<gf>>, QName(hv)),
             Fcall(hv, <<NilLit>>), Fcall(gf, <<NilLit>>)})

\* interface Q requires a function field gf with one plain Object parameter; the field is
\* given functions whose parameter is the same, of interface type Q, ref, and Int
ProgFuncField ==
    Program(<<Interface("Q", <<FieldFunc(gf, <<Arg(yo, FALSE)>>)>>)>>,
            <<Func(MainName, <<>>), Func(av, <<Arg(yo, FALSE)>>), Func(hv, <<Arg(pQ, FALSE)>>),
              Func(nv, <<Arg(yo, TRUE)>>), Func(rv, <<Arg(xi, FALSE)>>)>>,
            <<>>,
            {Vardef(zo), Vardef(pQ), AssignTo(<<zo>>, NewObject),
             AssignTo(<<zo, gf>>, QName(av)), AssignTo(<<zo, gf>>, QName(hv)),
             AssignTo(<<zo, gf>>, QName(nv)), AssignTo(<<zo, gf>>, QName(rv)),
             AssignTo(<<pQ>>, QName(zo))})

\* function tables: two functions of one name and one parameter type, two that differ
\* only in interface letter and ref flag, a main with a parameter, names of no type
ProgDuplicate ==
    Program(<<>>, <<Func(MainName, <<>>), Func(av, <<Arg(xi, FALSE)>>), Func(av, <<Arg(ki, FALSE)>>)>>,
            <<>>, {})
ProgDuplicateInterface ==
    Program(<<>>, <<Func(MainName, <<>>), Func(av, <<Arg(pQ, FALSE)>>), Func(av, <<Arg(yo, TRUE)>>)>>,
            <<>>, {})
ProgMainParam ==
    Program(<<>>, <<Func(MainName, <<Arg(xi, FALSE)>>)>>, <<>>, {})
ProgFunctionSuffix ==
    Program(<<>>, <<Func(MainName, <<>>), Func(ax, <<>>)>>, <<>>, {})
ProgParameterSuffix ==
    Program(<<>>, <<Func(MainName, <<>>), Func(av, <<Arg(xv, FALSE)>>)>>, <<>>, {})

\* dotted names of two and three parts, read and written, over nil and absent fields
ProgDotted ==
    Program(<<>>,
            <<Func(MainName, <<>>)>>,
            <<>>,
            {Vardef(yo), Vardef(xi), AssignTo(<<yo>>, NewObject), AssignTo(<<yo, zo>>, NewObject),
             AssignTo(<<yo, zo>>, NilLit), AssignTo(<<yo, zo, ki>>, IntLit(1)),
             AssignTo(<<xi>>, Expr("qname", <<yo, zo, ki>>, 0, <<>>))})

\* a function that returns inside nested if and while blocks, called inside such blocks
ProgReturn ==
    Program(<<>>,
            <<Func(MainName, <<>>), Func(av, <<>>)>>,
            <<>>,
            {IfStmt(BoolLit(TRUE)), WhileStmt(BoolLit(TRUE)), ReturnStmt(<<>>),
             Fcall(av, <<>>)})

\* a function literal with a ref Function parameter that is called with the variable
\* that holds it: the closure calls itself
ProgRecursive ==
    Program(<<>>,
            <<Func(MainName, <<>>)>>,
            <<Func(li, <<Arg(zf, TRUE)>>)>>,
            {Vardef(zf), AssignTo(<<zf>>, FuncLit(1)), Fcall(zf, <<QName(zf)>>)})

\* a name defined by var and by bvar inside an if block
ProgBlocks ==
    Program(<<>>,
            <<Func(MainName, <<>>)>>,
            <<>>,
            {IfStmt(BoolLit(TRUE)), Vardef(xi), Bvardef(xi)})

\* && and || with a left operand that decides, a right operand that allocates, and
\* operands of the wrong type
ProgLogical ==
    Program(<<>>,
            <<Func(MainName, <<>>)>>,
            <<>>,
            {Vardef(xb),
             AssignTo(<<xb>>, BinOp("&&", BoolLit(FALSE), BinOp("==", NewObject, NilLit))),
             AssignTo(<<xb>>, BinOp("||", BoolLit(TRUE), BinOp("==", NewObject, NilLit))),
             AssignTo(<<xb>>, BinOp("&&", BoolLit(TRUE), IntLit(1))),
             AssignTo(<<xb>>, BinOp("||", IntLit(1), BoolLit(TRUE))),
             AssignTo(<<xb>>, BinOp("&&", QName(ki), Neg(BoolLit(TRUE))))})

\* a function field of the object in a field of yo, called through the dotted name
ProgMethod ==
    Program(<<>>,
            <<Func(MainName, <<>>), Func(av, <<>>)>>,
            <<>>,
            {Vardef(yo), AssignTo(<<yo>>, NewObject), AssignTo(<<yo, zo>>, NewObject),
             AssignTo(<<yo, zo, gf>>, QName(av)), Expr("fcall", <<yo, zo, gf>>, 0, <<>>)})

\* a function literal passed by value to av, which calls its parameter; the body of the
\* literal assigns the captured xi
ProgClosureArg ==
    Program(<<>>,
            <<Func(MainName, <<>>), Func(av, <<Arg(zf, FALSE)>>)>>,
            <<Func(li, <<>>)>>,
            {Vardef(xi), AssignTo(<<xi>>, IntLit(1)), Fcall(av, <<FuncLit(1)>>),
             Fcall(zf, <<>>)})

\* interface R has a field of interface type Q; the object in yo holds itself in that
\* field and is assigned to a variable of interface type R
ProgCycle ==
    Program(<<Interface("Q", <<>>), Interface("R", <<FieldVar(nQ)>>)>>,
            <<Func(MainName, <<>>)>>,
            <<>>,
            {Vardef(yo), Vardef(pR), AssignTo(<<yo>>, NewObject),
             AssignTo(<<yo, nQ>>, QName(yo)), AssignTo(<<pR>>, QName(yo))})

Programs == {ProgScope, ProgRefTag, ProgRef, ProgRefField, ProgClosure, ProgClosureObject, ProgOverload, ProgVoid,
             ProgObjects, ProgInterface, ProgMutation, ProgControl,
             ProgFuncEq, ProgDivide, ProgSelfReference, ProgMutualReference,
             ProgRefInterface, ProgRefOtherInterface, ProgNilCall, ProgFuncField,
             ProgDuplicate, ProgDuplicateInterface, ProgMainParam, ProgFunctionSuffix,
             ProgParameterSuffix, ProgDotted, ProgReturn, ProgRecursive,
             ProgBlocks, ProgLogical, ProgMethod, ProgClosureArg,
             ProgCycle}

Init ==
    /\ prog \in Programs
    /\ pc = "start"
    /\ cells = <<>>
    /\ stacks = <<<<>>>>
    /\ cur = 1
    /\ lams = <<>>
    /\ heap = EmptyTable
    /\ next_obj_id = 1
    /\ interfaces = EmptyTable
    /\ funcs = EmptyTable
    /\ current_return_type = T_VOID
    /\ current_return_interface = NoInterface
    /\ callstack = <<>>
    /\ ret = NoRet
    /\ err = NoError
    /\ output = <<>>
    /\ last = OpOf("init", NoNode, NoValue)

MainKey == <<MainName, <<>>>>

\* run() once the interface table is built; last names the call of run() that raised
RunFunctions(it, ft) ==
    /\ interfaces' = it.tab
    /\ funcs' = ft.tab
    /\ IF ft.err # NoError
       THEN /\ err' = ft.err
            /\ pc' = "error"
            /\ last' = OpOf("create_function_table", NoNode, NoValue)
            /\ UNCHANGED <<current_return_type, current_return_interface>>
       ELSE IF MainKey \notin DOMAIN ft.tab
       THEN /\ err' = NAME_ERROR
            /\ pc' = "error"
            /\ last' = OpOf("get_function", NoNode, NoValue)
            /\ UNCHANGED <<current_return_type, current_return_interface>>
       ELSE /\ err' = err
            /\ pc' = "main"
            /\ last' = OpOf("run", NoNode, NoValue)
            /\ current_return_type' = FuncReturnType(prog.functions[ft.tab[MainKey]])
            /\ current_return_interface' = FuncReturnInterface(prog.functions[ft.tab[MainKey]])

RunTables(it) ==
    IF it.err # NoError
    THEN /\ interfaces' = it.tab
         /\ err' = it.err
         /\ pc' = "error"
         /\ last' = OpOf("create_interface_table", NoNode, NoValue)
         /\ UNCHANGED <<funcs, current_return_type, current_return_interface>>
    ELSE RunFunctions(it, create_function_table(prog.functions, 1, EmptyTable))

\* run(): the two tables, then main is looked up
Run ==
    /\ pc = "start"
    /\ RunTables(create_interface_table(prog.interfaces, EmptyTable))
    /\ UNCHANGED <<prog, cells, stacks, cur, lams, heap, next_obj_id, callstack, ret, output>>

\* the list self.env.env refers to while the callee runs
\* a closure runs on the caller's environment list like a named function
TargetCallerStack(fv) == cur
Target(fv) == IF FvClosureEnv(fv) # None THEN FvClosureEnv(fv) ELSE cur

\* the locals of invoke_function, the blocks the body has open (ctl), what the caller does
\* with the result (k), and the caller's environment list as it is when the call is made
\* (caller_env: history, read by no action)
Activation(fv, k) ==
    [previous_return_type |-> current_return_type,
     previous_return_interface |-> current_return_interface,
     saved_env_stack |-> cur,
     closure |-> FvClosureEnv(fv) # None,
     caller_env |-> stacks[cur],
     ctl |-> <<>>,
     k |-> k]

\* invoke_function from the saved state to the first statement of the body
EnterFunction(o, act) ==
    /\ Bounded([o.S EXCEPT !.cells = act.cells])
    /\ Len(callstack) < (IF FvClosureEnv(o.fv) # None THEN MaxClosureDepth ELSE MaxDepth)
    /\ cells' = act.cells
    /\ heap' = o.S.heap
    /\ next_obj_id' = o.S.next_obj_id
    /\ lams' = o.S.lams
    /\ stacks' = [o.S.stacks EXCEPT ![Target(o.fv)] = act.env]
    /\ cur' = Target(o.fv)
    /\ callstack' = Append(callstack, Activation(o.fv, o.k))
    /\ current_return_type' = IF IsLambdaFv(o.fv) THEN ReturnTypeOf(FvFuncAst(o.fv))
                              ELSE FuncReturnType(FvFuncAst(o.fv))
    /\ current_return_interface' = IF IsLambdaFv(o.fv) THEN ReturnInterfaceOf(FvFuncAst(o.fv))
                                   ELSE FuncReturnInterface(FvFuncAst(o.fv))
    /\ pc' = IF act.ok THEN "run" ELSE "error"
    /\ err' = IF act.ok THEN err ELSE NAME_ERROR
    /\ ret' = NoRet
    /\ last' = Op("call", o.call, Value(T_FUNCTION, o.fv), o.bindings, o.vals)
    /\ UNCHANGED <<prog, interfaces, funcs, output>>

\* __handle_print: one line of output, the result is a Void value
PrintOutput(o) ==
    /\ Bounded(o.S)
    /\ Len(output) < MaxOut
    /\ output' = Append(output, PrintLine(o.vals))
    /\ ApplyStore(o.S)
    /\ ret' = [v |-> Value(T_VOID, None), k |-> o.k]
    /\ pc' = "resume"
    /\ last' = Op("print", o.call, NoValue, <<>>, o.vals)
    /\ UNCHANGED <<prog, cur, interfaces, funcs, current_return_type,
                   current_return_interface, callstack, err>>

CallOutcome(o) ==
    IF o.tag = "error" THEN Raise(o.err, o.S, Op("call", o.call, NoValue, <<>>, o.vals))
    ELSE IF o.tag = "print" THEN PrintOutput(o)
    ELSE EnterFunction(o, Activate(o.bindings, o.owner, o.S.stacks[Target(o.fv)], o.S.cells))

\* __run_fcall down to invoke_function's activation (or to print's output)
DoCall(call, vals, k) == CallOutcome(RunCall(call, vals, k, stacks[cur], CurStore))

\* run(): self.__run_fcall(main_def)
CallMain ==
    /\ pc = "main"
    /\ DoCall(Expr("fcall", <<MainName>>, 0, <<>>), <<>>, <<Kont("main", NoNode, <<>>)>>)

Env == stacks[cur]
InBody == pc = "run"
Ctl == callstack[Len(callstack)].ctl

\* the variable is defined, or the name is already taken
VarDefined(statement, d, op) ==
    IF type_from_name(statement.name[1]) = TYPE_ERROR THEN Raise(TYPE_ERROR, CurStore, op)
    ELSE IF ~d.ok THEN Raise(NAME_ERROR, CurStore, op)
    ELSE Continue([CurStore EXCEPT !.cells = d.cells, !.stacks[cur] = d.env], op)

\* __run_vardef
RunVardef(statement) ==
    /\ InBody
    /\ statement.kind = "vardef"
    /\ VarDefined(statement,
                  fdef_function(Env, cells, statement.name[1],
                                default_value_for_type(type_from_name(statement.name[1]))),
                  OpOf("vardef", statement, NoValue))

\* __run_bvardef
RunBvardef(statement) ==
    /\ InBody
    /\ statement.kind = "bvardef"
    /\ VarDefined(statement,
                  fdef_block(Env, cells, statement.name[1],
                             default_value_for_type(type_from_name(statement.name[1]))),
                  OpOf("bvardef", statement, NoValue))

ValueSet(S, w, op) ==
    IF w.err # NoError THEN Raise(w.err, S, op)
    ELSE Continue([S EXCEPT !.cells = w.cells, !.heap = w.heap], op)

\* set_qname_value applied to the value of the right-hand side
AssignValue(statement, value, S) ==
    ValueSet(S, set_qname_value(S.stacks[cur], S.cells, S.heap, statement.name, value),
             OpOf("assign", statement, value))

AssignEvaluated(statement, r) ==
    IF r.err # NoError THEN Raise(r.err, r.S, OpOf("assign", statement, NoValue))
    ELSE AssignValue(statement, r.v, r.S)

\* __run_assign
RunAssign(statement) ==
    /\ InBody
    /\ statement.kind = "="
    /\ IF statement.args[1].kind = "fcall"
       THEN DoCall(statement.args[1], <<>>, <<Kont("assign", statement, <<>>)>>)
       ELSE AssignEvaluated(statement, eval_expr(statement.args[1], Env, CurStore))

\* a function call as a statement
RunFcall(statement) ==
    /\ InBody
    /\ statement.kind = "fcall"
    /\ DoCall(statement, <<>>, <<Kont("stmt", statement, <<>>)>>)

\* the condition of an if or a while has its value: the body is entered in a new block
\* (an if enters the block of the branch it takes, a while only when the condition holds)
Branch(statement, cond, op) ==
    IF cond.err # NoError THEN Raise(cond.err, cond.S, op)
    ELSE IF cond.v.t # T_BOOL THEN Raise(TYPE_ERROR, cond.S, op)
    ELSE IF statement.kind = "while" /\ ~cond.v.v THEN Continue(cond.S, op)
    ELSE ContinueIn([cond.S EXCEPT !.stacks[cur] = enter_block(@)], op, Append(Ctl, statement))

\* __run_if: the condition, then the branch in a new block
RunIf(statement) ==
    /\ InBody
    /\ statement.kind = "if"
    /\ Len(Env[Len(Env)]) <= MaxBlocks
    /\ Branch(statement, eval_expr(statement.args[1], Env, CurStore),
              OpOf("if", statement, NoValue))

\* __run_while: the condition, then the body in a new block
RunWhile(statement) ==
    /\ InBody
    /\ statement.kind = "while"
    /\ Len(Env[Len(Env)]) <= MaxBlocks
    /\ Branch(statement, eval_expr(statement.args[1], Env, CurStore),
              OpOf("while", statement, NoValue))

\* the body of a while has run: the block is left and the condition evaluated again
Again(statement, cond, op) ==
    IF cond.err # NoError THEN Raise(cond.err, cond.S, op)
    ELSE IF cond.v.t # T_BOOL THEN Raise(TYPE_ERROR, cond.S, op)
    ELSE IF ~cond.v.v THEN ContinueIn(cond.S, op, SubSeq(Ctl, 1, Len(Ctl) - 1))
    ELSE ContinueIn([cond.S EXCEPT !.stacks[cur] = enter_block(@)], op, Ctl)

\* the end of the statements of an if branch or of a loop body
ExitBlock ==
    /\ InBody
    /\ Ctl # <<>>
    /\ IF Ctl[Len(Ctl)].kind = "if"
       THEN ContinueIn([CurStore EXCEPT !.stacks[cur] = exit_block(@)],
                       OpOf("exit_block", Ctl[Len(Ctl)], NoValue), SubSeq(Ctl, 1, Len(Ctl) - 1))
       ELSE Again(Ctl[Len(Ctl)],
                  eval_expr(Ctl[Len(Ctl)].args[1], exit_block(Env),
                            [CurStore EXCEPT !.stacks[cur] = exit_block(@)]),
                  OpOf("again", Ctl[Len(Ctl)], NoValue))

\* a return inside a block leaves that block only: the frame stays on the list
FinishReturnLeavingBlock(value, S, op) ==
    /\ Bounded(S)
    /\ cells' = S.cells
    /\ heap' = S.heap
    /\ next_obj_id' = S.next_obj_id
    /\ lams' = S.lams
    /\ stacks' = [S.stacks EXCEPT ![cur] = IF Ctl # <<>> THEN exit_block(@) ELSE exit_func(@)]
    /\ cur' = IF callstack[Len(callstack)].closure
              THEN callstack[Len(callstack)].saved_env_stack ELSE cur
    /\ current_return_type' = callstack[Len(callstack)].previous_return_type
    /\ current_return_interface' = callstack[Len(callstack)].previous_return_interface
    /\ callstack' = SubSeq(callstack, 1, Len(callstack) - 1)
    /\ ret' = [v |-> value, k |-> callstack[Len(callstack)].k]
    /\ pc' = "resume"
    /\ last' = [op EXCEPT !.b = Ctl]
    /\ UNCHANGED <<prog, interfaces, funcs, err, output>>

\* the end of invoke_function: the frame is left, the caller's state restored; last
\* keeps the blocks the activation had open when it returned
FinishReturn(value, S, op) ==
    /\ Bounded(S)
    /\ cells' = S.cells
    /\ heap' = S.heap
    /\ next_obj_id' = S.next_obj_id
    /\ lams' = S.lams
    /\ stacks' = [S.stacks EXCEPT ![cur] = exit_func(@)]
    /\ cur' = IF callstack[Len(callstack)].closure
              THEN callstack[Len(callstack)].saved_env_stack ELSE cur
    /\ current_return_type' = callstack[Len(callstack)].previous_return_type
    /\ current_return_interface' = callstack[Len(callstack)].previous_return_interface
    /\ callstack' = SubSeq(callstack, 1, Len(callstack) - 1)
    /\ ret' = [v |-> value, k |-> callstack[Len(callstack)].k]
    /\ pc' = "resume"
    /\ last' = [op EXCEPT !.b = Ctl]
    /\ UNCHANGED <<prog, interfaces, funcs, err, output>>

ReturnChecked(statement, value, S, chk) ==
    IF chk.err # NoError THEN Raise(chk.err, S, OpOf("return", statement, value))
    ELSE FinishReturn(chk.v, S, OpOf("return", statement, chk.v))

\* __run_return once the expression has its value
ReturnValue(statement, value, S) ==
    IF current_return_type = T_VOID THEN Raise(TYPE_ERROR, S, OpOf("return", statement, value))
    ELSE ReturnChecked(statement, value, S,
                       CheckForSlot(S.cells, S.heap, current_return_type,
                                    current_return_interface, value))

ReturnEvaluated(statement, r) ==
    IF r.err # NoError THEN Raise(r.err, r.S, OpOf("return", statement, NoValue))
    ELSE ReturnValue(statement, r.v, r.S)

\* __run_return
RunReturn(statement) ==
    /\ InBody
    /\ statement.kind = "return"
    /\ IF statement.args = <<>>
       THEN FinishReturn(default_value_for_type(current_return_type), CurStore,
                         OpOf("return", statement, default_value_for_type(current_return_type)))
       ELSE IF statement.args[1].kind = "fcall"
       THEN DoCall(statement.args[1], <<>>, <<Kont("return", statement, <<>>)>>)
       ELSE ReturnEvaluated(statement, eval_expr(statement.args[1], Env, CurStore))

\* __run_statements reaches the end of the function body without a return
EndOfBody ==
    /\ InBody
    /\ Ctl = <<>>
    /\ FinishReturn(default_value_for_type(current_return_type), CurStore,
                    OpOf("end", NoNode, default_value_for_type(current_return_type)))

\* the caller goes on with the value the call returned
Resume ==
    /\ pc = "resume"
    /\ IF Head(ret.k).kind = "main" THEN
           /\ pc' = "done"
           /\ ret' = NoRet
           /\ last' = OpOf("done", NoNode, NoValue)
           /\ UNCHANGED <<prog, cells, stacks, cur, lams, heap, next_obj_id, interfaces, funcs,
                          current_return_type, current_return_interface, callstack, err, output>>
       ELSE IF Head(ret.k).kind = "stmt" THEN Continue(CurStore, OpOf("fcall", Head(ret.k).node, ret.v))
       ELSE IF Head(ret.k).kind = "assign" THEN AssignValue(Head(ret.k).node, ret.v, CurStore)
       ELSE IF Head(ret.k).kind = "return" THEN ReturnValue(Head(ret.k).node, ret.v, CurStore)
       ELSE DoCall(Head(ret.k).node, Append(Head(ret.k).vals, ret.v), Tail(ret.k))

\* the finally clause of the invoke_function activations the error passes
\* the exit of the call swallows the error and the caller's body goes on
UnwindAndContinue ==
    /\ pc = "error"
    /\ callstack # <<>>
    /\ pc' = "run"
    /\ err' = NoError
    /\ cur' = IF callstack[Len(callstack)].closure
              THEN callstack[Len(callstack)].saved_env_stack ELSE cur
    /\ current_return_type' = callstack[Len(callstack)].previous_return_type
    /\ current_return_interface' = callstack[Len(callstack)].previous_return_interface
    /\ callstack' = SubSeq(callstack, 1, Len(callstack) - 1)
    /\ last' = OpOf("unwind", NoNode, NoValue)
    /\ UNCHANGED <<prog, cells, stacks, lams, heap, next_obj_id, interfaces, funcs,
                   ret, output>>

Unwind ==
    /\ pc = "error"
    /\ callstack # <<>>
    /\ cur' = IF callstack[Len(callstack)].closure
              THEN callstack[Len(callstack)].saved_env_stack ELSE cur
    /\ current_return_type' = callstack[Len(callstack)].previous_return_type
    /\ current_return_interface' = callstack[Len(callstack)].previous_return_interface
    /\ callstack' = SubSeq(callstack, 1, Len(callstack) - 1)
    /\ last' = OpOf("unwind", NoNode, NoValue)
    /\ UNCHANGED <<prog, pc, cells, stacks, lams, heap, next_obj_id, interfaces, funcs,
                   ret, err, output>>

Next ==
    \/ Run
    \/ CallMain
    \/ \E statement \in prog.stmts : RunVardef(statement)
    \/ \E statement \in prog.stmts : RunBvardef(statement)
    \/ \E statement \in prog.stmts : RunAssign(statement)
    \/ \E statement \in prog.stmts : RunFcall(statement)
    \/ \E statement \in prog.stmts : RunIf(statement)
    \/ \E statement \in prog.stmts : RunWhile(statement)
    \/ \E statement \in prog.stmts : RunReturn(statement)
    \/ ExitBlock
    \/ EndOfBody
    \/ Resume
    \/ Unwind

Spec == Init /\ [][Next]_vars

(***************************************************************************)
(* Properties.                                                             *)
(***************************************************************************)
BoundInFrame(frame, name) == \E b \in 1..Len(frame) : name \in DOMAIN frame[b]

\* the name is bound in a frame below the top frame and in no block of the top frame
CallerOnly(env, name) ==
    /\ ~BoundInFrame(env[Len(env)], name)
    /\ \E f \in 1..(Len(env) - 1) : BoundInFrame(env[f], name)

NoClosureActive == \A i \in 1..Len(callstack) : ~callstack[i].closure

\* C1: name lookup never crosses function-frame boundaries: when a named function
\* that no closure called assigns to a plain name bound only in a frame of one of
\* its callers, the run ends with a Name error.
C1_LookupStaysInFrame ==
    (/\ pc \in {"run", "error"}
     /\ last.op = "assign"
     /\ last.v.t # T_NIL
     /\ Len(last.node.name) = 1
     /\ NoClosureActive
     /\ CallerOnly(Env, last.node.name[1]))
    => err = NAME_ERROR

\* the tag of the Cell equals the type the name's last character encodes
TagMatchesName(cell, name) == cells[cell].t = type_from_name(name)

\* C2: in every reachable state, every Cell bound under a name (a variable, a
\* parameter, an object field) holds a Value whose tag is the type encoded by the
\* last character of that name, a Cell shared by a ref parameter included.
C2_CellTagMatchesName ==
    /\ \A j \in 1..Len(stacks) : \A x \in Bindings(stacks[j]) :
          TagMatchesName(CellOfBinding(stacks[j], x), x[3])
    /\ \A o \in DOMAIN heap : \A n \in DOMAIN heap[o] : TagMatchesName(heap[o][n], n)

TopFrame(env) == env[Len(env)]

\* the Cell a plain name denotes in a frame: its binding in the innermost block
CellInFrame(frame, name) ==
    frame[Max({b \in 1..Len(frame) : name \in DOMAIN frame[b]})][name]

\* the Cell the caller's qualified name (a variable, or a field of a variable) denotes
ActualCell(env, cs, hp, qname) ==
    IF Len(qname) = 1 THEN CellInFrame(TopFrame(env), qname[1])
    ELSE hp[cs[CellInFrame(TopFrame(env), qname[1])].v][qname[2]]

\* the step enters a function: each ref formal is bound to the Cell of its actual,
\* each other formal to a Cell that did not exist before and holds the bind-value
BindsFormals ==
    (last'.op = "call" /\ pc' = "run") =>
        \A i \in 1..Len(last'.b) :
            IF last'.b[i].kind = "ref"
            THEN BoundInFrame(TopFrame(Env), last'.node.args[i].name[1]) =>
                    TopFrame(stacks'[cur'])[1][last'.b[i].pname]
                        = ActualCell(Env, cells, heap, last'.node.args[i].name)
            ELSE /\ TopFrame(stacks'[cur'])[1][last'.b[i].pname] \notin 1..Len(cells)
                 /\ cells'[TopFrame(stacks'[cur'])[1][last'.b[i].pname]] = last'.b[i].val

\* the step assigns to a plain name of the running function: the Cell bound to the
\* name takes the value, every other Cell keeps its value
AssignsBoundCell ==
    (/\ last'.op = "assign" /\ pc' = "run"
     /\ Len(last'.node.name) = 1
     /\ BoundInFrame(TopFrame(Env), last'.node.name[1])) =>
        \A c \in 1..Len(cells) :
            IF c = CellInFrame(TopFrame(Env), last'.node.name[1])
            THEN cells'[c].v = last'.v.v
            ELSE cells'[c] = cells[c]

\* the step returns from a function: every Cell keeps its value
ReturnKeepsCells ==
    (last'.op \in {"return", "end"} /\ pc' = "resume") =>
        \A c \in 1..Len(cells) : cells'[c] = cells[c]

\* C3: a ref formal whose actual is a variable or a field is bound to the very Cell
\* the actual names, so an assignment to it in the callee is the caller's value after
\* the return; any other formal is bound to a new Cell, so assignments to it never
\* change a Cell of the caller.
C3_RefSharesCell == [][BindsFormals /\ AssignsBoundCell /\ ReturnKeepsCells]_vars

\* the assignment ki = 1 in iv(ref ki) is the value of main's xi after iv(xi) returned
C3_Witness ==
    /\ pc = "run"
    /\ Len(callstack) = 1
    /\ last.op = "fcall"
    /\ last.node = Fcall(iv, <<QName(xi)>>)
    /\ cells[stacks[1][1][1][xi]] = Value(T_INT, 1)

\* the step evaluates a function literal: the list it captures has the shape of the
\* running environment, every binding on a Cell of its own that did not exist before
\* and holds the value the original held (for an Object the same object id)
CapturesSnapshot ==
    (Len(lams') = Len(lams) + 1) =>
        /\ Len(stacks') = Len(stacks) + 1
        /\ Bindings(stacks'[Len(stacks')]) = Bindings(Env)
        /\ \A x \in Bindings(Env) :
              /\ CellOfBinding(stacks'[Len(stacks')], x) \notin 1..Len(cells)
              /\ cells'[CellOfBinding(stacks'[Len(stacks')], x)] = cells[CellOfBinding(Env, x)]
        /\ \A x, y \in Bindings(Env) :
              x # y => CellOfBinding(stacks'[Len(stacks')], x) # CellOfBinding(stacks'[Len(stacks')], y)

\* a step of code that runs outside every closure changes no Cell of a captured list
SnapshotKept ==
    (cur = 1) =>
        \A j \in 2..Len(stacks) : \A x \in Bindings(stacks[j]) :
            cells'[CellOfBinding(stacks[j], x)] = cells[CellOfBinding(stacks[j], x)]

\* a closure that returns a plain name returns the value of the Cell its list binds
ReadsSnapshot ==
    (/\ cur > 1 /\ last'.op = "return" /\ pc' = "resume"
     /\ Len(last'.node.args) = 1
     /\ last'.node.args[1].kind = "qname"
     /\ Len(last'.node.args[1].name) = 1
     /\ BoundInFrame(TopFrame(exit_func(Env)), last'.node.args[1].name[1])
     /\ ~BoundInFrame(TopFrame(Env), last'.node.args[1].name[1])) =>
        last'.v = cells[CellInFrame(TopFrame(exit_func(Env)), last'.node.args[1].name[1])]

\* C4: a function literal captures a snapshot when it is evaluated: every captured
\* binding gets a Cell of its own with the value of that moment, so a later assignment
\* to the original variable is not seen by the closure, while a captured Object
\* variable holds the same object id and so denotes the same field table.
C4_LambdaSnapshot == [][CapturesSnapshot /\ SnapshotKept /\ ReadsSnapshot]_vars

\* the closure is running and has no xi of its own: the xi it captured still holds
\* the 0 of the moment of capture, while main's xi was assigned 1 afterwards
C4_Witness ==
    /\ pc = "run"
    /\ cur = 2
    /\ Len(stacks[2]) = 2
    /\ ~BoundInFrame(TopFrame(stacks[2]), xi)
    /\ xi \in DOMAIN stacks[2][1][1]
    /\ cells[stacks[2][1][1][xi]] = Value(T_INT, 0)
    /\ xi \in DOMAIN stacks[1][1][1]
    /\ cells[stacks[1][1][1][xi]] = Value(T_INT, 1)

\* an argument fits a parameter type: equal tags, or nil for Object and Function
ArgFits(ptype, arg) ==
    IF arg.t \in {T_OBJECT, T_FUNCTION} /\ arg.v = None
    THEN ptype \in {T_OBJECT, T_FUNCTION}
    ELSE ptype = arg.t

\* the top-level functions of the program that a call of name with args can mean
Candidates(name, args) ==
    {k \in 1..Len(prog.functions) :
        /\ prog.functions[k].name = name
        /\ Len(prog.functions[k].args) = Len(args)
        /\ \A i \in 1..Len(args) : ArgFits(type_from_name(prog.functions[k].args[i].name), args[i])}

\* the step is a call by a plain name that is no bound variable and no built-in,
\* with all its arguments evaluated and none of them Void
CallsByName ==
    /\ last'.op = "call"
    /\ Len(last'.node.name) = 1
    /\ last'.node.name[1] # PrintName
    /\ Len(last'.a) = Len(last'.node.args)
    /\ \A i \in 1..Len(last'.a) : last'.a[i].t # T_VOID
    /\ \A f \in 1..Len(Env) : ~BoundInFrame(Env[f], last'.node.name[1])

\* the function the step entered is function k of the program
Enters(k) ==
    /\ pc' = "run"
    /\ err' = NoError
    /\ last'.v = Value(T_FUNCTION, -k)
    /\ Len(callstack') = Len(callstack) + 1

\* the binding of the arguments to the parameters of function k raised a Type error
BindingRejects(k) ==
    /\ pc' = "error"
    /\ err' = TYPE_ERROR
    /\ \E i \in 1..Len(prog.functions[k].args) :
          \/ prog.functions[k].args[i].ref
          \/ interface_from_name(prog.functions[k].args[i].name) # NoInterface

\* C5: a call by a plain name that is not a bound variable invokes the one top-level
\* function of that name whose parameter types fit the arguments (nil fits Object and
\* Function); with no such function, or more than one, the run ends with a Name error
\* and no function is entered.
C5_OverloadResolution ==
    [][CallsByName =>
         IF Cardinality(Candidates(last'.node.name[1], last'.a)) = 1
         THEN \E k \in Candidates(last'.node.name[1], last'.a) : Enters(k) \/ BindingRejects(k)
         ELSE /\ pc' = "error"
              /\ err' = NAME_ERROR
              /\ callstack' = callstack
              /\ stacks' = stacks]_vars

\* hv(nil) entered hv, the only function named hv with one Object parameter
C5_Witness ==
    /\ pc = "run"
    /\ last.op = "call"
    /\ last.node = Fcall(hv, <<NilLit>>)
    /\ last.v = Value(T_FUNCTION, -5)

\* no Cell holds a Void value and no name ending in v is bound
NoVoidCell ==
    /\ \A c \in 1..Len(cells) : cells[c].t # T_VOID
    /\ \A j \in 1..Len(stacks) : \A x \in Bindings(stacks[j]) : Suffix(x[3]) # "v"
    /\ \A o \in DOMAIN heap : \A n \in DOMAIN heap[o] : Suffix(n) # "v"

\* a Void value as the right-hand side of an assignment ends the run, with a Type
\* error when the assigned variable exists
VoidNotAssigned ==
    (last.op = "assign" /\ last.v.t = T_VOID) =>
        /\ pc = "error"
        /\ (Len(last.node.name) = 1 /\ exists(Env, last.node.name[1])) => err = TYPE_ERROR

\* a Void value as the value of a return expression ends the run with a Type error
VoidNotReturned ==
    (last.op = "return" /\ Len(last.node.args) = 1 /\ last.v.t = T_VOID) =>
        pc = "error" /\ err = TYPE_ERROR

\* the definition of a variable whose name ends in v ends the run with a Type error
VoidNotDefined ==
    (last.op \in {"vardef", "bvardef"} /\ Suffix(last.node.name[1]) = "v") =>
        pc = "error" /\ err = TYPE_ERROR

\* the last step was such a call, all arguments evaluated, one of them Void
VoidArgument(ops) ==
    /\ last.op \in ops
    /\ Len(last.a) = Len(last.node.args)
    /\ \E i \in 1..Len(last.a) : last.a[i].t = T_VOID

ObjectsLive ==
    /\ next_obj_id >= 1
    /\ DOMAIN heap = 1..(next_obj_id - 1)
    /\ \A c \in 1..Len(cells) :
          (cells[c].t = T_OBJECT /\ cells[c].v # None) => cells[c].v \in DOMAIN heap

\* == on two objects is identity
IdentityEquality ==
    \A a, b \in DOMAIN heap :
        ValuesEqual(Value(T_OBJECT, a), Value(T_OBJECT, b)) <=> (a = b)

\* the ids a step allocates are the next ones of the counter, greater than every id
\* in use, each with an empty field table
AllocatesNext ==
    /\ next_obj_id' >= next_obj_id
    /\ DOMAIN heap' = DOMAIN heap \cup (next_obj_id..(next_obj_id' - 1))
    /\ \A o \in DOMAIN heap' \ DOMAIN heap :
          /\ \A p \in DOMAIN heap : o > p
          /\ heap'[o] = EmptyBlock

\* no step removes an object or a field of an object
KeepsHeap ==
    \A o \in DOMAIN heap :
        /\ o \in DOMAIN heap'
        /\ \A n \in DOMAIN heap[o] : n \in DOMAIN heap'[o] /\ heap'[o][n] = heap[o][n]

\* the step compared the results of two new-object expressions: they are not equal
DistinctObjectsDiffer ==
    (/\ last'.op = "assign" /\ pc' = "run"
     /\ last'.node.args[1] = BinOp("==", NewObject, NewObject)) =>
        /\ last'.v = Value(T_BOOL, FALSE)
        /\ next_obj_id' = next_obj_id + 2

\* C7: every new-object gets the next id of a counter that starts at 1, greater than
\* every id allocated before, with an empty field table; no heap entry and no field is
\* ever removed; every non-nil Object value in a Cell refers to an existing field
\* table; two distinct new-object results are not ==, and an object is == to itself.
C7_ObjectIdentity ==
    [][ObjectsLive' /\ IdentityEquality' /\ AllocatesNext /\ KeepsHeap
       /\ DistinctObjectsDiffer]_vars

\* the comparison @ == @ allocated the objects 1 and 2 and assigned false
C7_Witness ==
    /\ pc = "run"
    /\ last.op = "assign"
    /\ last.node = AssignTo(<<xb>>, BinOp("==", NewObject, NewObject))
    /\ last.v = Value(T_BOOL, FALSE)
    /\ DOMAIN heap = {1, 2}

\* the declaration of interface I in the program
Declared(I) == \E i \in 1..Len(prog.interfaces) : prog.interfaces[i].name = I
Declaration(I) == prog.interfaces[CHOOSE i \in 1..Len(prog.interfaces) : prog.interfaces[i].name = I]

\* the tag a declared field requires
RequiredTag(field) == IF field.kind = "field_var" THEN type_from_name(field.name) ELSE T_FUNCTION

\* object o lacks a field that interface I declares, or holds a value of another tag in it
LacksField(hp, cs, I, o) ==
    \E i \in 1..Len(Declaration(I).fields) :
        \/ Declaration(I).fields[i].name \notin DOMAIN hp[o]
        \/ cs[hp[o][Declaration(I).fields[i].name]].t # RequiredTag(Declaration(I).fields[i])

\* val is a non-nil object that cannot be stored in a slot of interface I
NonConforming(hp, cs, I, val) ==
    /\ I # NoInterface
    /\ Declared(I)
    /\ val.t = T_OBJECT
    /\ val.v # None
    /\ val.v \in DOMAIN hp
    /\ LacksField(hp, cs, I, val.v)

\* the step raised a Type error and changed no Cell
RejectedUnchanged ==
    /\ pc' = "error"
    /\ err' = TYPE_ERROR
    /\ \A c \in 1..Len(cells) : cells'[c] = cells[c]

\* a non-conforming object assigned to an existing variable of an interface type
AssignChecksInterface ==
    (/\ last'.op = "assign"
     /\ Len(last'.node.name) = 1
     /\ exists(Env, last'.node.name[1])
     /\ NonConforming(heap', cells', interface_from_name(last'.node.name[1]), last'.v)) =>
        RejectedUnchanged

\* a non-conforming object passed for a parameter of an interface type
ParameterChecksInterface ==
    (/\ CallsByName
     /\ Cardinality(Candidates(last'.node.name[1], last'.a)) = 1
     /\ \E k \in Candidates(last'.node.name[1], last'.a) : \E i \in 1..Len(last'.a) :
           NonConforming(heap', cells', interface_from_name(prog.functions[k].args[i].name),
                         last'.a[i])) =>
        RejectedUnchanged /\ callstack' = callstack

\* a non-conforming object returned from a function of an interface type
ReturnChecksInterface ==
    (/\ last'.op = "return"
     /\ Len(last'.node.args) = 1
     /\ NonConforming(heap', cells', current_return_interface, last'.v)) =>
        RejectedUnchanged /\ callstack' = callstack

\* nil assigned to an existing variable of an interface type is stored
NilPasses ==
    (/\ last'.op = "assign"
     /\ Len(last'.node.name) = 1
     /\ BoundInFrame(TopFrame(Env), last'.node.name[1])
     /\ interface_from_name(last'.node.name[1]) # NoInterface
     /\ last'.v.t = T_OBJECT
     /\ last'.v.v = None) =>
        /\ pc' = "run"
        /\ err' = NoError
        /\ cells'[CellInFrame(TopFrame(Env), last'.node.name[1])] = Value(T_OBJECT, None)

Errored == err # NoError

\* C9: the first error of any kind terminates the run: from the state in which it is
\* raised on, no statement executes (the only steps left are the exits of the active
\* calls), no output line is emitted, no Cell and no heap entry is changed, and the
\* error is never cleared or replaced.
C9_ErrorTerminates ==
    [][Errored => /\ pc = "error"
                  /\ pc' = "error"
                  /\ err' = err
                  /\ last'.op = "unwind"
                  /\ output' = output
                  /\ cells' = cells
                  /\ heap' = heap
                  /\ next_obj_id' = next_obj_id
                  /\ stacks' = stacks
                  /\ lams' = lams
                  /\ Len(callstack') < Len(callstack)]_vars

\* an error raised inside a call after a line was printed, all calls left
C9_Witness ==
    /\ err \in {NAME_ERROR, TYPE_ERROR, FAULT_ERROR}
    /\ pc = "error"
    /\ last.op = "unwind"
    /\ callstack = <<>>
    /\ output # <<>>

\* the interface-typed names of the active frame whose Cell holds object o
HoldersOf(env, cs, o) ==
    {name \in UNION {DOMAIN TopFrame(env)[b] : b \in 1..Len(TopFrame(env))} :
        /\ interface_from_name(name) # NoInterface
        /\ cs[CellInFrame(TopFrame(env), name)] = Value(T_OBJECT, o)}

\* the statement assigns nil or a function to a func-typed field of the live object
\* that the variable base holds, while an interface-typed variable holds the same object
MutatesHeldObject(base, field) ==
    /\ last'.op = "assign"
    /\ last'.node.name = <<base, field>>
    /\ type_from_name(field) = T_FUNCTION
    /\ is_nil_value(last'.v) \/ last'.v.t = T_FUNCTION
    /\ BoundInFrame(TopFrame(Env), base)
    /\ cells[CellInFrame(TopFrame(Env), base)].t = T_OBJECT
    /\ cells[CellInFrame(TopFrame(Env), base)].v # None
    /\ cells[CellInFrame(TopFrame(Env), base)].v \in DOMAIN heap
    /\ HoldersOf(Env, cells, cells[CellInFrame(TopFrame(Env), base)].v) # {}

\* the field assignment went through: no error, the field holds the assigned value
\* and every interface-typed variable still holds the object
FieldWritten(base, field) ==
    /\ pc' = "run"
    /\ err' = NoError
    /\ field \in DOMAIN heap'[cells[CellInFrame(TopFrame(Env), base)].v]
    /\ cells'[heap'[cells[CellInFrame(TopFrame(Env), base)].v][field]] =
           Value(T_FUNCTION, last'.v.v)
    /\ HoldersOf(Env', cells', cells[CellInFrame(TopFrame(Env), base)].v) =
           HoldersOf(Env, cells, cells[CellInFrame(TopFrame(Env), base)].v)

\* C10: conformance is not re-checked on mutation: once an object is held by an
\* interface-typed variable, assigning nil or any function (whatever its parameter
\* list) to a func-typed field of it through an alias succeeds without error and the
\* variable goes on holding the object.
C10_MutationNotChecked ==
    [][\A statement \in prog.stmts :
          (/\ statement.kind = "="
           /\ Len(statement.name) = 2
           /\ MutatesHeldObject(statement.name[1], statement.name[2])) =>
              FieldWritten(statement.name[1], statement.name[2])]_vars

\* after yo.gf = nil the variable pQ holds a non-nil object that no longer satisfies Q
C10_Witness ==
    /\ err = NoError
    /\ pc = "run"
    /\ last.op = "assign"
    /\ last.node = AssignTo(<<yo, gf>>, NilLit)
    /\ BoundInFrame(TopFrame(Env), pQ)
    /\ cells[CellInFrame(TopFrame(Env), pQ)].t = T_OBJECT
    /\ cells[CellInFrame(TopFrame(Env), pQ)].v # None
    /\ cells[CellInFrame(TopFrame(Env), pQ)].v \in DOMAIN heap
    /\ object_satisfies_interface(cells, heap, interface_from_name(pQ),
                                  cells[CellInFrame(TopFrame(Env), pQ)]) = Result(NoError, FALSE)

\* the operand names a top-level function: it is no variable and one function has the name
NamesFunction(env, e) ==
    /\ e.kind = "qname"
    /\ Len(e.name) = 1
    /\ ~exists(env, e.name[1])
    /\ Cardinality({k \in 1..Len(prog.functions) : prog.functions[k].name = e.name[1]}) = 1

\* the operand is a variable of the active frame that holds a non-nil Function
HoldsFunction(env, cs, e) ==
    /\ e.kind = "qname"
    /\ Len(e.name) = 1
    /\ BoundInFrame(TopFrame(env), e.name[1])
    /\ cs[CellInFrame(TopFrame(env), e.name[1])].t = T_FUNCTION
    /\ cs[CellInFrame(TopFrame(env), e.name[1])].v # None

\* what l == r must yield for two operands that denote non-nil functions:
\* "same", "differ", or "other" when the operands are not of these shapes
FunctionComparison(env, cs, l, r) ==
    IF l.kind = "func" /\ r.kind = "func" THEN "differ"
    ELSE IF NamesFunction(env, l) /\ NamesFunction(env, r)
         THEN (IF l.name = r.name THEN "same" ELSE "differ")
    ELSE IF (NamesFunction(env, l) /\ r.kind = "func") \/ (l.kind = "func" /\ NamesFunction(env, r))
         THEN "differ"
    ELSE IF HoldsFunction(env, cs, l) /\ l = r THEN "same"
    ELSE "other"

\* an assignment of l == r stored the comparison the operands call for
ComparesFunctions ==
    (/\ last'.op = "assign"
     /\ pc' = "run"
     /\ last'.node.args[1].kind = "=="
     /\ FunctionComparison(Env, cells, last'.node.args[1].args[1],
                           last'.node.args[1].args[2]) # "other") =>
        last'.v = Value(T_BOOL,
                        FunctionComparison(Env, cells, last'.node.args[1].args[1],
                                           last'.node.args[1].args[2]) = "same")

\* two non-nil Function payloads denote the same function: both the same top-level
\* definition with equal parameter types, or both the same closure instance
SameFunction(p, q) ==
    \/ /\ p < 0
       /\ q < 0
       /\ prog.functions[-p] = prog.functions[-q]
       /\ ParamTypes(prog.functions[-p]) = ParamTypes(prog.functions[-q])
    \/ /\ p > 0
       /\ q > 0
       /\ p = q

\* the non-nil Function payloads that exist: the top-level functions and the closures
FunctionPayloads == {-k : k \in 1..Len(prog.functions)} \cup (1..Len(lams))

\* == and != decide SameFunction on every pair of existing non-nil Function values
EqualityIsIdentity ==
    \A p \in FunctionPayloads : \A q \in FunctionPayloads :
        /\ eval_binary_op("==", Value(T_FUNCTION, p), Value(T_FUNCTION, q)) =
               Result(NoError, Value(T_BOOL, SameFunction(p, q)))
        /\ eval_binary_op("!=", Value(T_FUNCTION, p), Value(T_FUNCTION, q)) =
               Result(NoError, Value(T_BOOL, ~SameFunction(p, q)))

\* C11: for two non-nil Function values == is true iff both are the same top-level
\* function with equal parameter types (two bare-name references to one function are
\* equal) or both are the same closure instance; two evaluations of one function
\* literal are unequal and a named function never equals a closure.
\* (the existing payloads change only when run() starts and when a closure is made)
C11_FunctionEquality ==
    [][ComparesFunctions /\ ((pc = "start" \/ lams' # lams) => EqualityIsIdentity')]_vars

\* xb = (literal == literal) stored false, with the two closures it made
C11_Witness ==
    /\ pc = "run"
    /\ last.op = "assign"
    /\ last.node = AssignTo(<<xb>>, BinOp("==", FuncLit(1), FuncLit(1)))
    /\ last.v = Value(T_BOOL, FALSE)
    /\ Len(lams) = 2

\* an operand that is an integer literal or the negation of one, and its value
IsIntOperand(e) == e.kind = "int" \/ (e.kind = "neg" /\ e.args[1].kind = "int")
OperandValue(e) == IF e.kind = "int" THEN e.val ELSE -(e.args[1].val)

Abs(n) == IF n < 0 THEN -n ELSE n

\* the integer quotient truncated toward zero
TruncDiv(a, b) ==
    IF (a < 0) = (b < 0) THEN Abs(a) \div Abs(b) ELSE -(Abs(a) \div Abs(b))

\* C12: for Int operands a and b with b # 0, a / b is the quotient truncated toward
\* zero: after xi = a / b the value assigned is TruncDiv(a, b).
C12_DivisionTruncates ==
    (/\ last.op = "assign"
     /\ pc = "run"
     /\ last.node.args[1].kind = "/"
     /\ IsIntOperand(last.node.args[1].args[1])
     /\ IsIntOperand(last.node.args[1].args[2])
     /\ OperandValue(last.node.args[1].args[2]) # 0) =>
        last.v = Value(T_INT, TruncDiv(OperandValue(last.node.args[1].args[1]),
                                       OperandValue(last.node.args[1].args[2])))

\* the interface letters the declaration of one interface refers to
ReferredBy(node) ==
    {interface_from_name(node.fields[i].name) :
        i \in {j \in 1..Len(node.fields) : node.fields[j].kind = "field_var"}}
    \cup UNION {{interface_from_name(node.fields[i].params[p].name) :
                    p \in 1..Len(node.fields[i].params)} :
                i \in {j \in 1..Len(node.fields) : node.fields[j].kind = "field_func"}}

\* the declarations are sound: single-letter names declared once, fields with a type
\* suffix declared once per interface, every interface letter used is declared
InterfacesDeclared ==
    /\ \A i \in 1..Len(prog.interfaces) : prog.interfaces[i].name \in UpperLetters
    /\ \A i \in 1..Len(prog.interfaces) : \A j \in 1..Len(prog.interfaces) :
          prog.interfaces[i].name = prog.interfaces[j].name => i = j
    /\ \A i \in 1..Len(prog.interfaces) :
          /\ \A f \in 1..Len(prog.interfaces[i].fields) :
                \A g \in 1..Len(prog.interfaces[i].fields) :
                   prog.interfaces[i].fields[f].name = prog.interfaces[i].fields[g].name => f = g
          /\ \A f \in 1..Len(prog.interfaces[i].fields) :
                prog.interfaces[i].fields[f].kind \in {"field_var", "field_func"}
          /\ ReferredBy(prog.interfaces[i]) \ {NoInterface} \subseteq
                {prog.interfaces[j].name : j \in 1..Len(prog.interfaces)}

\* C13: interface table construction accepts interfaces that refer to each other by
\* letter, self-reference and mutual reference included: for sound declarations it
\* does not end the run with a Name error.
C13_InterfaceReferencesAccepted ==
    InterfacesDeclared => ~(last.op = "create_interface_table" /\ err = NAME_ERROR)

\* the interface letter of parameter i of function k
FormalInterface(k, i) == interface_from_name(prog.functions[k].args[i].name)

\* parameter i of function k is a ref parameter of an interface type and its actual is a name
RefInterfaceFormal(k, i) ==
    /\ prog.functions[k].args[i].ref
    /\ FormalInterface(k, i) # NoInterface
    /\ last'.node.args[i].kind = "qname"

\* the actual of a ref parameter of interface type I is a name of another interface letter
RefOtherInterfaceRejected ==
    (/\ CallsByName
     /\ Cardinality(Candidates(last'.node.name[1], last'.a)) = 1
     /\ \E k \in Candidates(last'.node.name[1], last'.a) : \E i \in 1..Len(last'.a) :
           /\ RefInterfaceFormal(k, i)
           /\ interface_for_qname(last'.node.args[i].name) \notin {NoInterface, FormalInterface(k, i)}) =>
        RejectedUnchanged /\ callstack' = callstack

\* the actual of the only parameter, a ref parameter of interface type I, is a name of
\* no interface letter or of letter I, and its value is nil or an object that conforms to I
RefSameOrNoInterfaceAccepted ==
    (/\ CallsByName
     /\ Cardinality(Candidates(last'.node.name[1], last'.a)) = 1
     /\ Len(last'.a) = 1
     /\ \E k \in Candidates(last'.node.name[1], last'.a) :
           /\ RefInterfaceFormal(k, 1)
           /\ interface_for_qname(last'.node.args[1].name) \in {NoInterface, FormalInterface(k, 1)}
           /\ Declared(FormalInterface(k, 1))
           /\ last'.a[1].t = T_OBJECT
           /\ ~NonConforming(heap', cells', FormalInterface(k, 1), last'.a[1])) =>
        /\ \E k \in Candidates(last'.node.name[1], last'.a) : Enters(k)
        /\ last'.b[1].kind = "ref"
        /\ BoundInFrame(TopFrame(Env), last'.node.args[1].name[1]) =>
              TopFrame(stacks'[cur'])[1][last'.b[1].pname]
                  = ActualCell(Env, cells, heap, last'.node.args[1].name)

\* C14: for a ref formal whose name ends in an interface letter I, an actual whose name
\* ends in a different interface letter ends the run with a Type error even when the
\* current value satisfies I, and no Cell is changed; an actual whose name ends in I or
\* in no interface letter (a plain Object variable) is accepted when its value is nil or
\* satisfies I, and the formal is bound to the actual's Cell.
C14_RefInterfaceChecked == [][RefOtherInterfaceRejected /\ RefSameOrNoInterfaceAccepted]_vars

\* tv(pR) was rejected although pR holds an object that satisfies the empty interface Q
C14_Witness ==
    /\ pc = "error"
    /\ err = TYPE_ERROR
    /\ last.op = "call"
    /\ last.node = Fcall(tv, <<QName(pR)>>)
    /\ last.a[1].t = T_OBJECT
    /\ last.a[1].v # None
    /\ ~NonConforming(heap, cells, interface_from_name(pQ), last.a[1])

\* C14 as stated: a ref formal whose name ends in an interface letter is bound only to an
\* actual whose qualified name ends in the same letter: no call enters a function with
\* such a formal bound to a name of another interface letter or of none.
C14_RefInterfaceMatches ==
    (last.op = "call" /\ pc = "run") =>
        \A i \in 1..Len(last.b) :
            (/\ last.b[i].kind = "ref"
             /\ interface_from_name(last.b[i].pname) # NoInterface) =>
                interface_for_qname(last.node.args[i].name) = interface_from_name(last.b[i].pname)

\* the step is a call through a variable or a field that holds a non-nil function,
\* with all its arguments evaluated and none of them Void
CallsFunctionValue ==
    /\ last'.op = "call"
    /\ Len(last'.a) = Len(last'.node.args)
    /\ \A i \in 1..Len(last'.a) : last'.a[i].t # T_VOID
    /\ \/ Len(last'.node.name) > 1
       \/ \E f \in 1..Len(Env) : BoundInFrame(Env[f], last'.node.name[1])
    /\ get_qname_cell(Env, cells, heap, last'.node.name).err = NoError
    /\ cells[get_qname_cell(Env, cells, heap, last'.node.name).v].t = T_FUNCTION
    /\ cells[get_qname_cell(Env, cells, heap, last'.node.name).v].v # None

\* the parameters of the function the called variable or field holds
CalledParams == FvFuncAst(cells[get_qname_cell(Env, cells, heap, last'.node.name).v].v).args

\* every argument fits its by-value parameter of no interface type
ArgsFit(params, args) ==
    /\ Len(params) = Len(args)
    /\ \A i \in 1..Len(args) :
          /\ ArgFits(type_from_name(params[i].name), args[i])
          /\ ~params[i].ref
          /\ interface_from_name(params[i].name) = NoInterface

\* C15: in a call through a function-valued variable or field, as in a call by name, a nil
\* argument of tag Object or Function is accepted for a parameter of type Object or
\* Function whichever of the two tags it carries: the call enters the function.
C15_NilFitsEveryCall ==
    [][(CallsFunctionValue /\ ArgsFit(CalledParams, last'.a)) => (pc' = "run" /\ err' = NoError)]_vars

\* the declared parameter lists are identical: same length and, position by position,
\* the same type, the same interface letter (or none in both) and the same ref flag
IdenticalParams(formal_params, required_params) ==
    /\ Len(formal_params) = Len(required_params)
    /\ \A i \in 1..Len(formal_params) :
          /\ type_from_name(formal_params[i].name) = type_from_name(required_params[i].name)
          /\ interface_from_name(formal_params[i].name) = interface_from_name(required_params[i].name)
          /\ formal_params[i].ref = required_params[i].ref

\* as IdenticalParams, but a required parameter of plain Object type is matched by an
\* Object parameter of any interface letter
FittingParams(formal_params, required_params) ==
    /\ Len(formal_params) = Len(required_params)
    /\ \A i \in 1..Len(formal_params) :
          /\ type_from_name(formal_params[i].name) = type_from_name(required_params[i].name)
          /\ formal_params[i].ref = required_params[i].ref
          /\ \/ interface_from_name(formal_params[i].name) = interface_from_name(required_params[i].name)
             \/ interface_from_name(required_params[i].name) = NoInterface

\* the field of object o that the func field spec names holds a non-nil function
FieldHoldsFunction(hp, cs, o, field) ==
    /\ field.name \in DOMAIN hp[o]
    /\ cs[hp[o][field.name]].t = T_FUNCTION
    /\ cs[hp[o][field.name]].v # None

\* the parameters of the function the field holds
FieldParams(hp, cs, o, field) == FvFuncAst(cs[hp[o][field.name]].v).args

\* a non-nil object has been assigned to a variable of the running function whose
\* interface declares func fields only: the object satisfies the interface iff the
\* assignment went through
AssignedToFuncInterface ==
    /\ last.op = "assign"
    /\ pc \in {"run", "error"}
    /\ Len(last.node.name) = 1
    /\ BoundInFrame(TopFrame(Env), last.node.name[1])
    /\ interface_from_name(last.node.name[1]) # NoInterface
    /\ Declared(interface_from_name(last.node.name[1]))
    /\ \A i \in 1..Len(Declaration(interface_from_name(last.node.name[1])).fields) :
          Declaration(interface_from_name(last.node.name[1])).fields[i].kind = "field_func"
    /\ last.v.t = T_OBJECT
    /\ last.v.v \in DOMAIN heap

\* C16: an object satisfies a func field spec of an interface iff the field holds a
\* non-nil Function whose parameter list has the same length as the spec's and, position
\* by position, the same declared type and ref flag and the same interface letter, except
\* that a spec parameter of plain Object type (no interface letter) is matched by an
\* Object parameter of any interface letter.
C16_FuncFieldConformance ==
    AssignedToFuncInterface =>
        (pc = "run" <=>
            \A i \in 1..Len(Declaration(interface_from_name(last.node.name[1])).fields) :
                /\ FieldHoldsFunction(heap, cells, last.v.v,
                                 Declaration(interface_from_name(last.node.name[1])).fields[i])
                /\ FittingParams(FieldParams(heap, cells, last.v.v,
                                     Declaration(interface_from_name(last.node.name[1])).fields[i]),
                                 Declaration(interface_from_name(last.node.name[1])).fields[i].params))

\* pQ = zo was rejected: zo.gf holds nv, whose parameter is ref where Q requires by value
C16_Witness ==
    /\ AssignedToFuncInterface
    /\ pc = "error"
    /\ err = TYPE_ERROR
    /\ last.node = AssignTo(<<pQ>>, QName(zo))
    /\ FieldHoldsFunction(heap, cells, last.v.v, FieldFunc(gf, <<Arg(yo, FALSE)>>))
    /\ FieldParams(heap, cells, last.v.v, FieldFunc(gf, <<Arg(yo, FALSE)>>)) = <<Arg(yo, TRUE)>>

\* C16 as stated: the object satisfies the func field spec iff the field holds a non-nil
\* Function whose parameter list is identical to the spec's in length and, position by
\* position, in declared type, interface letter and ref flag.
C16_FuncFieldIdentical ==
    AssignedToFuncInterface =>
        (pc = "run" <=>
            \A i \in 1..Len(Declaration(interface_from_name(last.node.name[1])).fields) :
                /\ FieldHoldsFunction(heap, cells, last.v.v,
                                 Declaration(interface_from_name(last.node.name[1])).fields[i])
                /\ IdenticalParams(FieldParams(heap, cells, last.v.v,
                                       Declaration(interface_from_name(last.node.name[1])).fields[i]),
                                   Declaration(interface_from_name(last.node.name[1])).fields[i].params))

\* the characters a name can end in: a type letter, v for a function, an interface letter
TypeLetters == {"i", "s", "b", "o", "f"}
ValidSuffixes ==
    \A k \in 1..Len(prog.functions) :
        /\ \/ prog.functions[k].name = MainName
           \/ Suffix(prog.functions[k].name) \in TypeLetters \cup {"v"} \cup UpperLetters
        /\ \A i \in 1..Len(prog.functions[k].args) :
              Suffix(prog.functions[k].args[i].name) \in TypeLetters \cup UpperLetters

\* the tuple of parameter types of function k: an interface letter stands for Object
TypeTuple(k) ==
    [i \in 1..Len(prog.functions[k].args) |->
        IF Suffix(prog.functions[k].args[i].name) \in UpperLetters THEN T_OBJECT
        ELSE type_from_name(prog.functions[k].args[i].name)]

DuplicateKeys ==
    \E j, k \in 1..Len(prog.functions) :
        /\ j < k
        /\ prog.functions[j].name = prog.functions[k].name
        /\ TypeTuple(j) = TypeTuple(k)

MainHasParameter ==
    \E k \in 1..Len(prog.functions) :
        prog.functions[k].name = MainName /\ Len(prog.functions[k].args) > 0

\* run() has built the interface table and gone on to the function table
FunctionTableBuilt == last.op \in {"create_function_table", "get_function", "run"}

\* the construction of the function table ended the run with a Name error
TableNameError == last.op = "create_function_table" /\ err = NAME_ERROR

\* every declared function is in the table under its own key
AllStored ==
    /\ last.op # "create_function_table"
    /\ DOMAIN funcs = {<<prog.functions[k].name, TypeTuple(k)>> : k \in 1..Len(prog.functions)}
    /\ \A k \in 1..Len(prog.functions) : funcs[<<prog.functions[k].name, TypeTuple(k)>>] = k

\* C17: when every function name and parameter name ends in a valid type suffix, function
\* table construction ends the run with a Name error iff two top-level functions have the
\* same name and the same tuple of parameter types (interface letters and ref flags do not
\* distinguish keys) or main declares a parameter, and otherwise every declared function
\* is stored under its own key and none is overwritten; a name of no valid suffix ends
\* the construction with a Type error, or with a Name error raised before it is reached.
C17_FunctionTable ==
    FunctionTableBuilt =>
        IF ValidSuffixes
        THEN /\ TableNameError <=> (DuplicateKeys \/ MainHasParameter)
             /\ ~(DuplicateKeys \/ MainHasParameter) => AllStored
        ELSE /\ last.op = "create_function_table"
             /\ err \in {TYPE_ERROR, NAME_ERROR}
             /\ pc = "error"

\* two functions named av whose parameters differ only in interface letter and ref flag:
\* the construction ended with a Name error
C17_Witness ==
    /\ TableNameError
    /\ pc = "error"
    /\ ValidSuffixes
    /\ ~MainHasParameter
    /\ \E j, k \in 1..Len(prog.functions) :
          /\ j < k
          /\ prog.functions[j].name = prog.functions[k].name
          /\ TypeTuple(j) = TypeTuple(k)
          /\ prog.functions[j].args # prog.functions[k].args
          /\ \E i \in 1..Len(prog.functions[j].args) :
                prog.functions[j].args[i].ref # prog.functions[k].args[i].ref

\* C17 as stated: function table construction ends the run with a Name error iff there
\* are duplicate keys or main declares a parameter, and otherwise every declared function
\* is stored under its own key.
C17_NameErrorOrStored ==
    FunctionTableBuilt =>
        /\ TableNameError <=> (DuplicateKeys \/ MainHasParameter)
        /\ ~(DuplicateKeys \/ MainHasParameter) => AllStored

\* what following the fields of a dotted name from the value val comes to: "fault" at a
\* nil object, "name" at an absent field, "absent" when only the final field is absent,
\* "found" at the final field, "other" at a value that is no object
RECURSIVE Walk(_, _, _, _)
Walk(cs, hp, val, fields) ==
    IF val.t # T_OBJECT THEN "other"
    ELSE IF val.v = None THEN "fault"
    ELSE IF Len(fields) = 1
         THEN (IF Head(fields) \in DOMAIN hp[val.v] THEN "found" ELSE "absent")
    ELSE IF Head(fields) \notin DOMAIN hp[val.v] THEN "name"
    ELSE Walk(cs, hp, cs[hp[val.v][Head(fields)]], Tail(fields))

\* the same for a dotted name in the running function: "name" for an unbound base
Resolves(env, cs, hp, qname) ==
    IF \E i \in 1..(Len(qname) - 1) : type_from_name(qname[i]) # T_OBJECT THEN "other"
    ELSE IF Len(env) = 0 \/ ~BoundInFrame(TopFrame(env), qname[1]) THEN "name"
    ELSE Walk(cs, hp, cs[CellInFrame(TopFrame(env), qname[1])], Tail(qname))

\* the step ended the run with error e and changed no Cell and no field table
EndsUnchanged(e) ==
    /\ pc' = "error"
    /\ err' = e
    /\ cells' = cells
    /\ heap' = heap

\* the step assigns a literal to a dotted name
WritesDotted ==
    /\ last'.op = "assign"
    /\ Len(last'.node.name) > 1
    /\ last'.node.args[1].kind \in {"int", "bool", "nil"}

\* the step assigns the value of a dotted name to a variable
ReadsDotted ==
    /\ last'.op = "assign"
    /\ Len(last'.node.name) = 1
    /\ last'.node.args[1].kind = "qname"
    /\ Len(last'.node.args[1].name) > 1

DottedWrite ==
    WritesDotted =>
        /\ Resolves(Env, cells, heap, last'.node.name) = "fault" => EndsUnchanged(FAULT_ERROR)
        /\ Resolves(Env, cells, heap, last'.node.name) = "name" => EndsUnchanged(NAME_ERROR)
        /\ Resolves(Env, cells, heap, last'.node.name) = "absent" =>
              /\ err' \notin {NAME_ERROR, FAULT_ERROR}
              /\ pc' = "error" => (cells' = cells /\ heap' = heap)
              /\ pc' = "run" => \E o \in DOMAIN heap :
                    /\ last'.node.name[Len(last'.node.name)] \notin DOMAIN heap[o]
                    /\ last'.node.name[Len(last'.node.name)] \in DOMAIN heap'[o]

DottedRead ==
    ReadsDotted =>
        /\ Resolves(Env, cells, heap, last'.node.args[1].name) = "fault" => EndsUnchanged(FAULT_ERROR)
        /\ Resolves(Env, cells, heap, last'.node.args[1].name) \in {"name", "absent"} =>
              EndsUnchanged(NAME_ERROR)

\* C18: when a dotted name is read or written, a nil object at the base or at an
\* intermediate field ends the run with a Fault error, an unbound base or an absent
\* intermediate field with a Name error; reading an absent final field is a Name error,
\* writing one creates it; in every error case no Cell and no field table is modified.
C18_DottedNames == [][DottedWrite /\ DottedRead]_vars

\* the step is a return statement executed inside at least one if or while block
ReturnsInsideBlocks ==
    /\ last'.op = "return"
    /\ pc' = "resume"
    /\ Ctl # <<>>

\* C19: when a return statement executes inside any nesting of if and while blocks, the
\* activation is over (the caller is resumed and no statement of the activation executes
\* any more), all the blocks it entered and its frame are gone from the environment, and
\* the caller's environment is what it was when the call was made: the same frames, the
\* caller's frame with the same number of blocks and the same bindings.
C19_ReturnUnwinds ==
    [][ReturnsInsideBlocks =>
         /\ callstack' = SubSeq(callstack, 1, Len(callstack) - 1)
         /\ Len(Env) = Len(stacks'[cur]) + 1
         /\ Len(TopFrame(Env)) = Len(Ctl) + 1
         /\ stacks'[cur'] = callstack[Len(callstack)].caller_env
         /\ Len(stacks'[cur']) > 0 =>
               Len(TopFrame(stacks'[cur'])) = Len(TopFrame(callstack[Len(callstack)].caller_env))]_vars

\* av returned inside a while inside an if, called by main inside a while inside an if:
\* main's frame has its three blocks
C19_Witness ==
    /\ last.op = "return"
    /\ pc = "resume"
    /\ Len(last.b) = 2
    /\ last.b[1].kind = "if"
    /\ last.b[2].kind = "while"
    /\ Len(callstack) = 1
    /\ callstack[1].ctl = last.b
    /\ Len(Env) = 1
    /\ Len(TopFrame(Env)) = 3

\* the step enters the body of a function value that carries a closure snapshot
ClosureCallEnters ==
    /\ last'.op = "call"
    /\ pc' = "run"
    /\ Len(callstack') = Len(callstack) + 1
    /\ FvClosureEnv(last'.v.v) # None

\* the body runs on the snapshot's list with one new frame on top that binds the
\* parameters only; no other list changes; the activation keeps what the caller had
RunsOnSnapshot ==
    ClosureCallEnters =>
        /\ cur' = FvClosureEnv(last'.v.v)
        /\ cur' \in DOMAIN stacks
        /\ Len(stacks'[cur']) = Len(stacks[cur']) + 1
        /\ SubSeq(stacks'[cur'], 1, Len(stacks[cur'])) = stacks[cur']
        /\ Len(TopFrame(stacks'[cur'])) = 1
        /\ DOMAIN TopFrame(stacks'[cur'])[1] \subseteq
              {last'.b[i].pname : i \in 1..Len(last'.b)} \cup {Selfo}
        /\ \A j \in DOMAIN stacks : j # cur' => stacks'[j] = stacks[j]
        /\ callstack'[Len(callstack')].caller_env = Env
        /\ callstack'[Len(callstack')].saved_env_stack = cur
        /\ callstack'[Len(callstack')].previous_return_type = current_return_type
        /\ callstack'[Len(callstack')].previous_return_interface = current_return_interface

\* the body of a closure assigns a literal to a plain name that its own list does not
\* bind, whatever the caller's list binds: a Name error
CallerNamesHidden ==
    (/\ pc = "run"
     /\ callstack[Len(callstack)].closure
     /\ last'.op = "assign"
     /\ Len(last'.node.name) = 1
     /\ last'.node.args[1].kind \in {"int", "bool", "nil"}
     /\ \A f \in 1..Len(Env) : ~BoundInFrame(Env[f], last'.node.name[1])) =>
        /\ pc' = "error"
        /\ err' = NAME_ERROR

\* what an activation keeps of its caller does not change while it is on the call stack
ActivationsKept ==
    \A i \in 1..Len(callstack) :
        i <= Len(callstack') =>
            /\ callstack'[i].caller_env = callstack[i].caller_env
            /\ callstack'[i].saved_env_stack = callstack[i].saved_env_stack
            /\ callstack'[i].previous_return_type = callstack[i].previous_return_type
            /\ callstack'[i].previous_return_interface = callstack[i].previous_return_interface

\* the step returns from the body of a closure: the interpreter is back on the caller's
\* list, which has the frames, blocks and Cells it had when the call was made, and the
\* current return type and interface are the caller's again
ClosureReturnRestores ==
    (/\ pc = "run"
     /\ callstack[Len(callstack)].closure
     /\ last'.op \in {"return", "end"}
     /\ pc' = "resume") =>
        /\ callstack' = SubSeq(callstack, 1, Len(callstack) - 1)
        /\ cur' = callstack[Len(callstack)].saved_env_stack
        /\ stacks'[cur'] = callstack[Len(callstack)].caller_env
        /\ current_return_type' = callstack[Len(callstack)].previous_return_type
        /\ current_return_interface' = callstack[Len(callstack)].previous_return_interface

\* C20: a call of a function value that carries a closure snapshot runs the body on the
\* snapshot plus one new activation frame (names bound only in the caller's list are not
\* visible), and when the call returns the environment is the caller's list again with
\* the frames, blocks and Cells it had before the call, and the current return type and
\* return interface have their values of before the call; nested and recursive calls too.
C20_ClosureCall ==
    [][RunsOnSnapshot /\ CallerNamesHidden /\ ActivationsKept /\ ClosureReturnRestores]_vars

\* the closure called itself and the inner call has returned: the interpreter is back on
\* the snapshot's list with the frame of the outer call on top
C20_Witness ==
    /\ prog = ProgRecursive
    /\ pc = "resume"
    /\ last.op \in {"return", "end"}
    /\ Len(callstack) = 2
    /\ callstack[2].closure
    /\ cur = 2
    /\ Len(stacks[2]) = 2
    /\ zf \in DOMAIN TopFrame(stacks[2])[1]

\* the object whose field table the last part of a dotted name is looked up in
RECURSIVE ObjectAt(_, _, _, _)
ObjectAt(cs, hp, val, fields) ==
    IF Len(fields) = 1 THEN val.v
    ELSE ObjectAt(cs, hp, cs[hp[val.v][Head(fields)]], Tail(fields))

\* the object a dotted name of the running function ends in
TargetObject(env, cs, hp, qname) ==
    ObjectAt(cs, hp, cs[CellInFrame(TopFrame(env), qname[1])], Tail(qname))

\* the stored value is the assigned one (a nil takes the tag of the target)
HoldsAssigned(cell, value) ==
    IF value.t \in {T_OBJECT, T_FUNCTION}
    THEN /\ cell.t \in {T_OBJECT, T_FUNCTION}
         /\ cell.v = value.v
         /\ value.v # None => cell.t = value.t
    ELSE cell = value

\* every binding that existed before the step is still a binding to the same Cell
BindingsKept ==
    /\ \A j \in DOMAIN stacks : stacks'[j] = stacks[j]
    /\ \A o \in DOMAIN heap : \A n \in DOMAIN heap[o] : heap'[o][n] = heap[o][n]

\* a successful assignment to a variable of the running function
AssignsVariable ==
    (/\ last'.op = "assign" /\ pc' = "run"
     /\ Len(last'.node.name) = 1
     /\ BoundInFrame(TopFrame(Env), last'.node.name[1])) =>
        /\ HoldsAssigned(cells'[CellInFrame(TopFrame(Env), last'.node.name[1])], last'.v)
        /\ \A c \in 1..Len(cells) :
              c # CellInFrame(TopFrame(Env), last'.node.name[1]) => cells'[c] = cells[c]
        /\ BindingsKept
        /\ \A o \in DOMAIN heap : DOMAIN heap'[o] = DOMAIN heap[o]

\* a successful assignment to a field the object has
AssignsExistingField ==
    (/\ last'.op = "assign" /\ pc' = "run"
     /\ Len(last'.node.name) > 1
     /\ Resolves(Env, cells, heap, last'.node.name) = "found") =>
        /\ HoldsAssigned(cells'[heap[TargetObject(Env, cells, heap, last'.node.name)]
                                    [last'.node.name[Len(last'.node.name)]]], last'.v)
        /\ \A c \in 1..Len(cells) :
              c # heap[TargetObject(Env, cells, heap, last'.node.name)]
                      [last'.node.name[Len(last'.node.name)]] => cells'[c] = cells[c]
        /\ BindingsKept
        /\ \A o \in DOMAIN heap : DOMAIN heap'[o] = DOMAIN heap[o]

\* a successful assignment to a field the object does not have
AssignsAbsentField ==
    (/\ last'.op = "assign" /\ pc' = "run"
     /\ Len(last'.node.name) > 1
     /\ Resolves(Env, cells, heap, last'.node.name) = "absent") =>
        /\ DOMAIN heap'[TargetObject(Env, cells, heap, last'.node.name)] =
              DOMAIN heap[TargetObject(Env, cells, heap, last'.node.name)]
                  \cup {last'.node.name[Len(last'.node.name)]}
        /\ heap'[TargetObject(Env, cells, heap, last'.node.name)]
                [last'.node.name[Len(last'.node.name)]] \notin 1..Len(cells)
        /\ HoldsAssigned(cells'[heap'[TargetObject(Env, cells, heap, last'.node.name)]
                                     [last'.node.name[Len(last'.node.name)]]], last'.v)
        /\ \A c \in 1..Len(cells) : cells'[c] = cells[c]
        /\ BindingsKept
        /\ \A o \in DOMAIN heap :
              o # TargetObject(Env, cells, heap, last'.node.name) => DOMAIN heap'[o] = DOMAIN heap[o]

\* C21: a successful assignment to an existing variable or an existing object field puts
\* the value in the same Cell, so every binding to that Cell (a ref parameter, a captured
\* name) sees it, and changes no other Cell; a successful assignment to a field the object
\* does not have adds that one field on a new Cell and leaves every other field, object
\* and variable as it was.
C21_AssignInPlace == [][AssignsVariable /\ AssignsExistingField /\ AssignsAbsentField]_vars

\* iv(ref ki) assigned ki = 1 and is still running: main's xi, bound to the same Cell as
\* ki, holds 1
C21_Witness ==
    /\ pc = "run"
    /\ last.op = "assign"
    /\ last.node = AssignTo(<<ki>>, IntLit(1))
    /\ Len(callstack) = 2
    /\ Len(Env) = 2
    /\ xi \in DOMAIN Env[1][1]
    /\ ki \in DOMAIN Env[2][1]
    /\ Env[1][1][xi] = Env[2][1][ki]
    /\ cells[Env[1][1][xi]] = Value(T_INT, 1)

\* the name ends in the letter of a type a variable can have
VariableName(name) == Suffix(name) \in TypeLetters \cup UpperLetters

\* the default value of the type the name declares
DefaultOf(name) ==
    IF Suffix(name) = "i" THEN Value(T_INT, 0)
    ELSE IF Suffix(name) = "s" THEN Value(T_STRING, <<>>)
    ELSE IF Suffix(name) = "b" THEN Value(T_BOOL, FALSE)
    ELSE IF Suffix(name) = "f" THEN Value(T_FUNCTION, None)
    ELSE Value(T_OBJECT, None)

\* the step raised a Name error and changed no binding and no Cell
AlreadyDefined ==
    /\ pc' = "error"
    /\ err' = NAME_ERROR
    /\ stacks' = stacks
    /\ cells' = cells

\* block b of the running frame has the new binding of name to a new Cell that holds
\* the default value; every other block and every other binding is as before
DefinedInBlock(b, name) ==
    /\ pc' = "run"
    /\ Len(TopFrame(stacks'[cur])) = Len(TopFrame(Env))
    /\ DOMAIN TopFrame(stacks'[cur])[b] = DOMAIN TopFrame(Env)[b] \cup {name}
    /\ TopFrame(stacks'[cur])[b][name] \notin 1..Len(cells)
    /\ cells'[TopFrame(stacks'[cur])[b][name]] = DefaultOf(name)
    /\ \A n \in DOMAIN TopFrame(Env)[b] : TopFrame(stacks'[cur])[b][n] = TopFrame(Env)[b][n]
    /\ \A a \in 1..Len(TopFrame(Env)) : a # b => TopFrame(stacks'[cur])[a] = TopFrame(Env)[a]

\* a var-definition, in whatever block it executes
VarDefinition ==
    (last'.op = "vardef" /\ VariableName(last'.node.name[1])) =>
        IF last'.node.name[1] \in DOMAIN TopFrame(Env)[1]
        THEN AlreadyDefined
        ELSE DefinedInBlock(1, last'.node.name[1])

\* a block-var-definition
BlockVarDefinition ==
    (last'.op = "bvardef" /\ VariableName(last'.node.name[1])) =>
        IF last'.node.name[1] \in DOMAIN TopFrame(Env)[Len(TopFrame(Env))]
        THEN AlreadyDefined
        ELSE DefinedInBlock(Len(TopFrame(Env)), last'.node.name[1])

\* the end of an if branch or of a loop body: the bindings of the innermost block are
\* gone (a loop that goes on has a new empty block), the blocks below are as before
BlockExit ==
    (last'.op \in {"exit_block", "again"} /\ pc' = "run") =>
        /\ \A b \in 1..(Len(TopFrame(Env)) - 1) : TopFrame(stacks'[cur])[b] = TopFrame(Env)[b]
        /\ \/ Len(TopFrame(stacks'[cur])) = Len(TopFrame(Env)) - 1
           \/ /\ Len(TopFrame(stacks'[cur])) = Len(TopFrame(Env))
              /\ TopFrame(stacks'[cur])[Len(TopFrame(Env))] = EmptyBlock

\* C22: a var-definition, also one executed inside a nested block, binds the name with
\* the default value of its type in the initial block of the running frame, where the
\* binding outlives the nested block, and is a Name error iff the name is bound in that
\* initial block; a block-var-definition binds in the innermost block only, is a Name
\* error iff the name is bound in that same block, and its binding is gone when the
\* block exits.
C22_DefinitionScopes == [][VarDefinition /\ BlockVarDefinition /\ BlockExit]_vars

\* var xi executed inside the if block after bvar xi: xi is bound in the initial block
\* and, on another Cell, in the if block
C22_Witness ==
    /\ pc = "run"
    /\ last.op = "vardef"
    /\ last.node = Vardef(xi)
    /\ Len(TopFrame(Env)) = 2
    /\ xi \in DOMAIN TopFrame(Env)[1]
    /\ xi \in DOMAIN TopFrame(Env)[2]
    /\ TopFrame(Env)[1][xi] # TopFrame(Env)[2][xi]

\* the number of object allocations written in an expression
RECURSIVE Allocations(_)
RECURSIVE AllocationsIn(_)
AllocationsIn(args) == IF args = <<>> THEN 0 ELSE Allocations(Head(args)) + AllocationsIn(Tail(args))
Allocations(expr) == IF expr.kind = "@" THEN 1 ELSE AllocationsIn(expr.args)

\* the result of kind on two Bool values
LogicalResult(kind, a, b) == IF kind = "&&" THEN a /\ b ELSE a \/ b

\* the step that evaluates  target = op1 kind op2  where the operands, evaluated one
\* after the other, come out as l and r
StrictOn(kind, op1, op2, target, l, r) ==
    IF l.err # NoError THEN pc' = "error" /\ err' = l.err
    ELSE IF r.err # NoError THEN pc' = "error" /\ err' = r.err
    ELSE /\ next_obj_id' = next_obj_id + Allocations(op1) + Allocations(op2)
         /\ DOMAIN heap' = DOMAIN heap \cup (next_obj_id..(next_obj_id' - 1))
         /\ IF l.v.t # T_BOOL \/ r.v.t # T_BOOL
            THEN pc' = "error" /\ err' = TYPE_ERROR
            ELSE pc' = "run" =>
                    cells'[CellInFrame(TopFrame(Env), target)] =
                        Value(T_BOOL, LogicalResult(kind, l.v.v, r.v.v))

StrictAfterLeft(kind, op1, op2, target, l) ==
    StrictOn(kind, op1, op2, target, l, eval_expr(op2, Env, l.S))

\* an assignment of an && or an || expression
AssignsLogical ==
    /\ last'.op = "assign"
    /\ last'.node.args[1].kind \in {"&&", "||"}

\* C23: && and || evaluate the left operand, then the right one, always: an error of
\* the left operand comes before one of the right operand, the objects the right
\* operand allocates exist after the step also when the left operand decides the
\* result, and an operand that is not a Bool is a Type error.
C23_StrictLogical ==
    [][AssignsLogical =>
        StrictAfterLeft(last'.node.args[1].kind, last'.node.args[1].args[1],
                        last'.node.args[1].args[2], last'.node.name[1],
                        eval_expr(last'.node.args[1].args[1], Env, CurStore))]_vars

\* false && (@ == nil) has been assigned: xb is false and the object of the right
\* operand is in the heap
C23_Witness ==
    /\ pc = "run"
    /\ last.op = "assign"
    /\ last.node = AssignTo(<<xb>>, BinOp("&&", BoolLit(FALSE), BinOp("==", NewObject, NilLit)))
    /\ cells[CellInFrame(TopFrame(Env), xb)] = Value(T_BOOL, FALSE)
    /\ next_obj_id - 1 \in DOMAIN heap

\* the step entered the body of a function
CallEnters ==
    /\ last'.op = "call"
    /\ pc' = "run"
    /\ Len(callstack') = Len(callstack) + 1

\* a call through a dotted name: selfo is bound in the initial block of the new frame
\* to the object whose field table holds the called field
DottedCallBindsSelfo ==
    (CallEnters /\ Len(last'.node.name) > 1) =>
        /\ Selfo \in DOMAIN TopFrame(stacks'[cur'])[1]
        /\ cells'[TopFrame(stacks'[cur'])[1][Selfo]] =
              Value(T_OBJECT, ObjectAt(cells, heap, cells[get_current_cell(Env, last'.node.name[1])],
                                       Tail(last'.node.name)))
        /\ last'.node.name[Len(last'.node.name)] \in
              DOMAIN heap[cells'[TopFrame(stacks'[cur'])[1][Selfo]].v]

\* a call through a plain name, of a function of the program or of a variable
PlainCallBindsNoSelfo ==
    (CallEnters /\ Len(last'.node.name) = 1) =>
        \A b \in 1..Len(TopFrame(stacks'[cur'])) : Selfo \notin DOMAIN TopFrame(stacks'[cur'])[b]

\* C24: a call through a dotted name a.b.mf binds selfo, in the initial block of the
\* new frame, to the terminal object, the value of a.b, whose field table holds mf; a
\* call through a plain name or a plain function variable binds no selfo.
C24_SelfoIsTerminalObject == [][DottedCallBindsSelfo /\ PlainCallBindsNoSelfo]_vars

\* yo.zo.gf() has entered av: selfo is the object in yo.zo, which is not the object in
\* the caller's yo
C24_Witness ==
    /\ pc = "run"
    /\ last.op = "call"
    /\ last.node.name = <<yo, zo, gf>>
    /\ Len(callstack) = 2
    /\ Selfo \in DOMAIN TopFrame(Env)[1]
    /\ cells[TopFrame(Env)[1][Selfo]].t = T_OBJECT
    /\ gf \in DOMAIN heap[cells[TopFrame(Env)[1][Selfo]].v]
    /\ zo \notin DOMAIN heap[cells[TopFrame(Env)[1][Selfo]].v]

\* the number of activations of the call stack calls that run on list j, when the
\* running list is c
RunningOn(calls, c, j) ==
    Cardinality({i \in 1..Len(calls) :
                    (IF i = Len(calls) THEN c ELSE calls[i + 1].saved_env_stack) = j})

\* a list is made exactly when a function literal is evaluated, one per evaluation, with
\* the frames of the environment the literal is evaluated in; no list is ever dropped
\* and the closures made before keep their literal
SnapshotMadeOnce ==
    /\ Len(stacks') = Len(lams') + 1
    /\ Len(lams') >= Len(lams)
    /\ SubSeq(lams', 1, Len(lams)) = lams
    /\ \A j \in (Len(lams) + 1)..Len(lams') :
          /\ pc = "run"
          /\ Len(stacks'[j + 1]) = Len(Env)
          /\ \A f \in 1..Len(Env) : Len(stacks'[j + 1][f]) = Len(Env[f])

\* whoever holds the function value, the variable the literal was assigned to, a
\* parameter it was passed to or a captured copy, the call runs on the list made with it
CopiesShareSnapshot ==
    ClosureCallEnters =>
        /\ last'.v = cells[get_qname_cell(Env, cells, heap, last'.node.name).v]
        /\ cur' = last'.v.v + 1
        /\ cur' \in DOMAIN stacks

\* while the run goes on, a snapshot has the frames it was made with and one more for
\* each activation that runs on it: a call adds one, the return takes it away
SnapshotFramesKept ==
    pc' # "error" =>
    \A j \in 2..Len(stacks) :
        Len(stacks'[j]) - RunningOn(callstack', cur', j) =
            Len(stacks[j]) - RunningOn(callstack, cur, j)

\* an assignment in the body of a closure to the plain name of a captured Int, String
\* or Bool variable
AssignsCaptured ==
    /\ last'.op = "assign"
    /\ pc = "run"
    /\ pc' = "run"
    /\ callstack[Len(callstack)].closure
    /\ Len(callstack') = Len(callstack)
    /\ Len(last'.node.name) = 1
    /\ Suffix(last'.node.name[1]) \in {"i", "s", "b"}
    /\ ~BoundInFrame(TopFrame(Env), last'.node.name[1])
    /\ \E f \in 1..(Len(Env) - 1) : BoundInFrame(Env[f], last'.node.name[1])

\* the Cell of the snapshot holds the value and stays bound, so that the next
\* invocation reads it; the Cell a frame of any other list binds the name to, the
\* scope the literal was evaluated in included, is another Cell and keeps its value
CapturedAssignment ==
    AssignsCaptured =>
        /\ stacks' = stacks
        /\ cells'[get_current_cell(Env, last'.node.name[1])] = last'.v
        /\ \A j \in DOMAIN stacks : \A f \in 1..Len(stacks[j]) : \A b \in 1..Len(stacks[j][f]) :
              (j # cur /\ last'.node.name[1] \in DOMAIN stacks[j][f][b]) =>
                 /\ stacks[j][f][b][last'.node.name[1]] # get_current_cell(Env, last'.node.name[1])
                 /\ cells'[stacks[j][f][b][last'.node.name[1]]] =
                       cells[stacks[j][f][b][last'.node.name[1]]]

\* C25: the snapshot of a closure is made once, when the function literal is
\* evaluated, and every invocation of the function value and of every copy of it runs
\* on that snapshot; an assignment in the body to a captured Int, String or Bool
\* variable stays in the snapshot for later invocations and never changes the variable
\* of that name in the scope that made the closure; after each invocation the snapshot
\* has the number of frames it was captured with.
C25_SnapshotReused ==
    [][SnapshotMadeOnce /\ CopiesShareSnapshot /\ SnapshotFramesKept /\ CapturedAssignment]_vars

\* av calls its parameter zf a second time: the captured xi holds the 1 the first
\* invocation assigned, main's xi is still 0, and the snapshot has its one frame and
\* the frame of this invocation
C25_Witness ==
    /\ prog = ProgClosureArg
    /\ pc = "run"
    /\ last.op = "call"
    /\ last.node = Fcall(zf, <<>>)
    /\ Len(callstack) = 3
    /\ callstack[3].closure
    /\ Len(Env) = 2
    /\ xi \in DOMAIN Env[1][1]
    /\ xi \in DOMAIN stacks[1][1][1]
    /\ cells[Env[1][1][xi]] = Value(T_INT, 1)
    /\ cells[stacks[1][1][1][xi]] = Value(T_INT, 0)

\* the place of the declaration of interface I in the source
SourceOrder(I) == CHOOSE i \in 1..Len(prog.interfaces) : prog.interfaces[i].name = I

\* the var fields of interface I that are of an interface type
InterfaceTypedFields(I) ==
    {i \in 1..Len(interfaces[I]) :
        interfaces[I][i].kind = "var" /\ interfaces[I][i].interface # NoInterface}

\* every interface a var field names is in the table and was declared before the
\* interface that has the field
NamesEarlierInterfaces ==
    \A I \in DOMAIN interfaces : \A i \in InterfaceTypedFields(I) :
        /\ interfaces[I][i].interface \in DOMAIN interfaces
        /\ SourceOrder(interfaces[I][i].interface) < SourceOrder(I)

\* the deepest nesting of calls of the conformance check of val against interface I,
\* following every var field the check can recurse on; counted up to fuel + 1
RECURSIVE CheckDepth(_, _, _)
CheckDepth(I, val, fuel) ==
    IF fuel = 0 THEN 1
    ELSE IF I \notin DOMAIN interfaces \/ val.t # T_OBJECT THEN 1
    ELSE IF val.v = None \/ val.v \notin DOMAIN heap THEN 1
    ELSE 1 + Max({0} \cup {CheckDepth(interfaces[I][i].interface,
                                      cells[heap[val.v][interfaces[I][i].name]], fuel - 1) :
                             i \in {k \in InterfaceTypedFields(I) :
                                       interfaces[I][k].name \in DOMAIN heap[val.v]}})

\* C26: the conformance check ends on every heap, also on one with a cycle: a var field
\* of an interface names only interfaces declared before it, and the nesting of the
\* check of any object against any interface is at most the number of interfaces.
C26_ConformanceTerminates ==
    /\ NamesEarlierInterfaces
    /\ \A I \in DOMAIN interfaces : \A o \in DOMAIN heap :
          CheckDepth(I, Value(T_OBJECT, o), Cardinality(DOMAIN interfaces))
              <= Cardinality(DOMAIN interfaces)

\* the object that holds itself in its field nQ has been checked against R and
\* assigned to pR
C26_Witness ==
    /\ prog = ProgCycle
    /\ pc = "run"
    /\ last.op = "assign"
    /\ last.node = AssignTo(<<pR>>, QName(yo))
    /\ cells[TopFrame(Env)[1][pR]].v \in DOMAIN heap
    /\ cells[heap[cells[TopFrame(Env)[1][pR]].v][nQ]] = cells[TopFrame(Env)[1][pR]]
    /\ CheckDepth("R", cells[TopFrame(Env)[1][pR]], 2) = 2
====
